----------------------------- MODULE MCPathHooks -----------------------------
(* An instance of PathHooks for TLC: two binds, one below the other and    *)
(* read-only, and host files where a path taken for a host path would land. *)
EXTENDS GuestNames

At(names) == Top \o names

Host0 ==
  [h \in {Top} \cup {At(x) : x \in {<<"dev">>, <<"R">>, <<"R", "a">>,
      <<"R", "t">>, <<"R", "t", ".bxroot-shm">>, <<"a">>, <<"B">>, <<"Q">>}}
     |-> Dir]
  @@ [h \in {At(x) : x \in {<<"R", "a", "f">>, <<"a", "f">>, <<"B", "f">>,
      <<"Q", "f">>, <<"R", "ld">>}} |-> File]

R == At(<<"R">>)
RA == At(<<"R", "a">>)
NoDirectory == <<>>
BindList == <<[src |-> At(<<"B">>), tgt |-> At(<<"m">>), ro |-> FALSE],
              [src |-> At(<<"Q">>), tgt |-> At(<<"m", "q">>), ro |-> TRUE]>>
Tmp == At(<<"t">>)
NoCompat == <<>>
Exe == At(<<"a", "f">>)
Loader == At(<<"R", "ld">>)

Used == {At(<<"l">>), At(<<"m", "l">>), At(<<"m">>), At(<<"m", "q", "f">>),
         <<"f">>, <<Up, "f">>}
Args == (Used \ {At(<<"m">>)})
  \cup {At(<<"a", "f">>), At(<<"l", "f">>), At(<<"l", Up, "a", "f">>), <<"l">>,
        Self \o <<"cwd", "f">>, At(<<"dev", "shm", "f">>)}
(* For ReadOnlyByDescriptor: opendir of the read-only bind's directory.    *)
Mounted == Used \cup {At(<<"m", "q">>)}
LinkTexts == {At(<<"a">>), At(<<"m">>), At(<<"l">>), At(<<"m","f">>),
              <<"f">>, <<Up, "a">>}
=============================================================================
