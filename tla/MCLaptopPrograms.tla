-------------------------- MODULE MCLaptopPrograms --------------------------
(***************************************************************************)
(* Small instances of the programs around a room for TLC.                  *)
(***************************************************************************)
EXTENDS LaptopPrograms

CONSTANTS me, other, f1, f2, f3, f4

\* A routine line and an urgent one of this laptop, and one of somebody else.
ThreeLines ==
    { [seq |-> 1, speaker |-> me, priority |-> 0],
      [seq |-> 2, speaker |-> other, priority |-> 1],
      [seq |-> 3, speaker |-> me, priority |-> 2] }

\* Two patches with contracts; a project path outside the worktree; patches the
\* worker cannot read.
ThreeRequests ==
    << [ diffs |-> {[session |-> 1, lease |-> 5], [session |-> 2, lease |-> 3]},
         contracts |-> TRUE, readable |-> TRUE, inside |-> TRUE ],
       [ diffs |-> {[session |-> 1, lease |-> 5]},
         contracts |-> FALSE, readable |-> TRUE, inside |-> FALSE ],
       [ diffs |-> {}, contracts |-> FALSE, readable |-> FALSE, inside |-> TRUE ] >>

\* A file edited and moved; a shell command that moves what it has made and commits
\* it; a build that rewrites a source file, makes one file where the watcher does not
\* look and prints into another one there.
Segment(name, args, into, sub) ==
    [name |-> name, args |-> args, into |-> into, inPlace |-> FALSE, sub |-> sub]
Sources == {f1, f2}
ThreeCalls ==
    { [ kind |-> "edit", fields |-> {f1, f2}, patch |-> {f1}, moved |-> {f2},
        command |-> <<>>, staged |-> {}, edits |-> {f2}, removes |-> {f1}, plain |-> {} ],
      [ kind |-> "shell", fields |-> {}, patch |-> {}, moved |-> {},
        command |-> <<Segment("mv", <<f1, f2>>, {}, "none"), Segment("git", <<>>, {}, "commit")>>,
        staged |-> {f2}, edits |-> {f2}, removes |-> {f1}, plain |-> {f2} ],
      [ kind |-> "shell", fields |-> {}, patch |-> {}, moved |-> {},
        command |-> <<Segment("pnpm", <<>>, {f4}, "none")>>,
        staged |-> {}, edits |-> {f1, f3, f4}, removes |-> {}, plain |-> {f4} ] }

\* A duel, and the time one member's own agent takes.
TwoMarkets ==
    [duel |-> [kind |-> "duel", closesAt |-> 1],
     time |-> [kind |-> "time", closesAt |-> 2, subject |-> "agent"]]
Owners == [agent |-> me]

\* 100 log2(2^yes + 2^no), rounded: LMSR with b = 100 / ln 2 shares of 1 / 100.
TwoOutcomeCost ==
    [q \in [Outcomes -> 0 .. 2] |->
        LET most == IF q["yes"] >= q["no"] THEN q["yes"] ELSE q["no"]
            gap == 2 * most - q["yes"] - q["no"]
        IN  100 * most + <<100, 58, 32>>[gap + 1]]

\* Minutes of a run: the middle bucket is settled on a name no market has.
Buckets == <<"yes", "garbled">>
=============================================================================
