----------------------------- MODULE AtomicFile -----------------------------
(***************************************************************************)
(* write_file_atomic (launcher/src/fileio.cpp): the new bytes go into      *)
(* path.part, are synced, and take the place of the file by a rename.      *)
(*                                                                         *)
(* A file is what its path holds, what the path held before the last       *)
(* rename (a directory entry is not synced, so a power cut may bring it    *)
(* back), what path.part holds, and whether the bytes of the two are on    *)
(* the disk.  A part being written is torn.                                *)
(*                                                                         *)
(* A write is a program counter over the calls; each call succeeds, or     *)
(* fails and sends the write to the cleanup at its end.                    *)
(***************************************************************************)
EXTENDS Naturals

Absent == <<"absent">>   \* there is no such file
Torn == <<"torn">>       \* bytes nobody meant to keep

File(c) == [main |-> c, before |-> c, kept |-> TRUE, part |-> Absent, synced |-> FALSE]

Files(Contents) ==
    [main : Contents \cup {Absent, Torn}, before : Contents \cup {Absent, Torn}, kept : BOOLEAN,
     part : Contents \cup {Absent, Torn}, synced : BOOLEAN]

\* The calls of a write, in order, and its two ends.
Calls == {"open", "write", "sync", "rename", "remove"}
Ends == {"saved", "failed"}

Opened(f) == [f EXCEPT !.part = Torn, !.synced = FALSE]
Written(f, c) == [f EXCEPT !.part = c]
Synced(f) == [f EXCEPT !.synced = TRUE]
Renamed(f) ==
    [main |-> f.part, before |-> f.main, kept |-> f.synced, part |-> Absent, synced |-> FALSE]
Removed(f) == [f EXCEPT !.part = Absent]

\* Mutant of Outcomes: the part takes the file's place before it is synced.
OutcomesUnsynced(f, at, c) ==
    CASE at = "open"   -> {<<Opened(f), "write">>, <<f, "failed">>}
      [] at = "write"  -> {<<Written(f, c), "rename">>, <<f, "remove">>}
      [] at = "rename" -> {<<Renamed(f), "saved">>, <<f, "remove">>}
      [] at = "sync"   -> {<<f, "rename">>}
      [] at = "remove" -> {<<Removed(f), "failed">>, <<f, "failed">>}

\* What call at of a write of c may leave, and the call that follows it.
Outcomes(f, at, c) ==
    CASE at = "open"   -> {<<Opened(f), "write">>, <<f, "failed">>}
      [] at = "write"  -> {<<Written(f, c), "sync">>, <<f, "remove">>}
      [] at = "sync"   -> {<<Synced(f), "rename">>, <<f, "remove">>}
      [] at = "rename" -> {<<Renamed(f), "saved">>, <<f, "remove">>}
      [] at = "remove" -> {<<Removed(f), "failed">>, <<f, "failed">>}

\* What is left in path.part makes no difference: the next write truncates it.
Swept(f) == [f EXCEPT !.part = Absent, !.synced = FALSE]

\* The write of c from where each of S has got to, one call further on.
Onward(S, c) == UNION {IF x[2] \in Ends THEN {x} ELSE Outcomes(x[1], x[2], c) : x \in S}

\* All a write of c to f can do, call by call: what it leaves where it ends, and
\* what a kill finds.
Writing(f, c) ==
    LET s1 == Onward({<<f, "open">>}, c)
        s2 == Onward(s1, c)
        s3 == Onward(s2, c)
        s4 == Onward(s3, c)
        s5 == Onward(s4, c)
    IN  s1 \cup s2 \cup s3 \cup s4 \cup s5
Completed(f, c) == {<<Swept(x[1]), x[2]>> : x \in {y \in Writing(f, c) : y[2] \in Ends}}
Abandoned(f, c) == {Swept(x[1]) : x \in Writing(f, c)}

\* The power is cut: what is not on the disk is gone, and so may be the last rename.
AfterPowerCut(f) ==
    {File(c) : c \in {f.before, IF f.kept THEN f.main ELSE Torn}}

=============================================================================
