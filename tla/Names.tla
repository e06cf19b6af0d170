-------------------------------- MODULE Names --------------------------------
(* The names of a project (compile/compile.go:77-132): every string that     *)
(* becomes a call on Files comes through rel.  A path is cut at its slashes, *)
(* as path.Clean cuts it, and a root is the segments of a rooted path, <<>>  *)
(* for a root of "/" once its trailing slash is trimmed.                     *)
EXTENDS Naturals, Sequences, SequencesExt

Rooted(segs)   == [rooted |-> TRUE, segs |-> segs]
Unrooted(segs) == [rooted |-> FALSE, segs |-> segs]
Empty          == Unrooted(<<>>)

\* path.Clean: "." and "" are dropped, ".." takes back a segment if there is
\* one, and is lost at the root or kept at the front of an unrooted path.
Walk(rooted, done, seg) ==
    CASE seg \in {"", "."} -> done
      [] seg = ".." /\ done # <<>> /\ Last(done) # ".." -> Front(done)
      [] seg = ".." /\ rooted -> done
      [] OTHER -> Append(done, seg)

Clean(p) ==
    LET done[n \in 0 .. Len(p.segs)] ==
            IF n = 0 THEN <<>> ELSE Walk(p.rooted, done[n - 1], p.segs[n])
    IN [p EXCEPT !.segs = done[Len(p.segs)]]

\* path.Join of two elements: an empty one is as if it was not there.
Join(base, p) ==
    Clean(IF base = Empty THEN p ELSE [base EXCEPT !.segs = @ \o p.segs])

Dir(p) == Clean([p EXCEPT !.segs = IF @ = <<>> THEN @ ELSE Front(@)])

\* fs.ValidPath, without ".": the names that stay inside the project.
ValidName(segs) ==
    segs # <<>> /\ \A i \in DOMAIN segs : segs[i] \notin {"", ".", ".."}

\* The root in front of a clean path, in whichever form it arrives.
Trim(c, root) ==
    IF root # <<>> /\ IsStrictPrefix(root, c.segs)
    THEN Unrooted(SubSeq(c.segs, Len(root) + 1, Len(c.segs)))
    ELSE c

\* rel: the project-relative name of a path, or no name (<<>>).
Refused == <<>>

Rel(p, root) ==
    LET t == Trim(Clean(p), root)
    IN IF ~t.rooted /\ ValidName(t.segs) THEN t.segs ELSE Refused

\* The name a guest knows a project file by: root + "/" + name.
Full(name, root) == Rooted(root \o name)
=============================================================================
