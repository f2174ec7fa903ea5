------------------------------ MODULE PathWalk ------------------------------
(***************************************************************************)
(* Trees of names and how a kernel walks them: components one by one,      *)
(* ".." to the parent, links in the middle always followed, the last one   *)
(* only if asked.  The same walk serves the host, where bxroot hands its   *)
(* paths, and the guest's namespace, what the guest means by them.         *)
(*                                                                         *)
(* A path is a sequence of names; an absolute one begins with "/".  A tree *)
(* is a function from the absolute paths that exist, none of them through  *)
(* a link, to what is there.                                               *)
(***************************************************************************)
EXTENDS Naturals, Sequences, FiniteSets, SequencesExt, TLC

Root == "/"
Top == <<Root>>
Up == ".."

IsAbs(p) == p # <<>> /\ p[1] = Root
Under(p, dir) == Len(dir) <= Len(p) /\ SubSeq(p, 1, Len(dir)) = dir
After(p, dir) == SubSeq(p, Len(dir) + 1, Len(p))
Parent(p) == IF Len(p) > 1 THEN Front(p) ELSE p

(* What a path can lead to; rev stands for contents and attributes.       *)
Dir == [kind |-> "dir", rev |-> 0, to |-> <<>>]
File == [kind |-> "file", rev |-> 0, to |-> <<>>]
Link(target) == [kind |-> "link", rev |-> 0, to |-> target]

Found(at) == [err |-> "OK", at |-> at]
Failed(err) == [err |-> err, at |-> Top]
Absent(at) == [err |-> "ABSENT", at |-> at]   (* only the last is missing *)

(* From directory at, along rest, with so many links still to follow.      *)
RECURSIVE Along(_, _, _, _, _)
Along(tree, at, rest, follow, links) ==
  IF rest = <<>> THEN Found(at)
  ELSE LET name == Head(rest)
           more == Tail(rest)
           next == Append(at, name)
       IN CASE name = Root -> Along(tree, Top, more, follow, links)
            [] tree[at].kind # "dir" -> Failed("ENOTDIR")
            [] name = Up -> Along(tree, Parent(at), more, follow, links)
            [] next \notin DOMAIN tree ->
                 IF more = <<>> THEN Absent(next) ELSE Failed("ENOENT")
            [] tree[next].kind = "link" /\ (follow \/ more # <<>>) ->
                 IF links = 0 THEN Failed("ELOOP")
                 ELSE Along(tree, at, tree[next].to \o more, follow, links - 1)
            [] OTHER -> Along(tree, next, more, follow, links)

Walk(tree, from, path, follow) == Along(tree, from, path, follow, 40)
=============================================================================
