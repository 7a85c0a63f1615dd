--------------------------- MODULE ValgrindOutput ---------------------------
(***************************************************************************)
(* ValgrindProfiler's reading of the file valgrind leaves in               *)
(* /tmp/valgrind_output (scripts/performance_monitor.py).  The profiler    *)
(* profile_benchmark creates is ValgrindProfiler() with tool 'massif', so  *)
(* the massif parser is the one the program reaches; the callgrind branch  *)
(* of _parse_valgrind_output is not.                                       *)
(*                                                                         *)
(* A line of the file is a record: its text up to and including the '='   *)
(* (the whole text for a line without one) and the integer after the '='. *)
(* str.startswith on the line is IsPrefix on that text; line.split('=')[1] *)
(* with int() is the value.  content.strip().split('\n') is the sequence  *)
(* of lines itself: massif writes no blank line a strip would change.      *)
(***************************************************************************)
EXTENDS Integers, Sequences, SequencesExt, Ratio

L(text, value) == [text |-> text, value |-> value]

startswith(line, prefix) == IsPrefix(prefix, line.text)

NoProfile == [none |-> TRUE]   \* the {} of a missing output file

(* Seeded fault: the heap lines matched on the prefix 'mem_heap', which  *)
(* also matches 'mem_heap_extra_B='.                                      *)
parse_massif_output_anyheap(lines) ==
    LET heaps == SelectSeq(lines, LAMBDA l : startswith(l, "mem_heap"))
        snapshots == SelectSeq(lines, LAMBDA l : ~startswith(l, "mem_heap")
                                                 /\ startswith(l, "snapshot="))
        peak_memory == FoldLeft(LAMBDA m, l : IF l.value > m THEN l.value ELSE m, 0, heaps)
    IN [peak_memory_bytes |-> peak_memory,
        peak_memory_mb |-> Ratio(peak_memory, 1024 * 1024),
        num_snapshots |-> Len(snapshots),
        snapshots |-> SubSeq(snapshots, 1, IF Len(snapshots) < 10 THEN Len(snapshots) ELSE 10)]

(* _parse_massif_output: the running max(peak_memory, heap_bytes) over    *)
(* the 'mem_heap_B=' lines from 0, the 'snapshot=' lines counted (the     *)
(* `elif': a line matching both is a heap line), the first ten kept.      *)
parse_massif_output(lines) ==
    LET heaps == SelectSeq(lines, LAMBDA l : startswith(l, "mem_heap_B="))
        snapshots == SelectSeq(lines, LAMBDA l : ~startswith(l, "mem_heap_B=")
                                                 /\ startswith(l, "snapshot="))
        peak_memory == FoldLeft(LAMBDA m, l : IF l.value > m THEN l.value ELSE m, 0, heaps)
    IN [peak_memory_bytes |-> peak_memory,
        peak_memory_mb |-> Ratio(peak_memory, 1024 * 1024),
        num_snapshots |-> Len(snapshots),
        snapshots |-> SubSeq(snapshots, 1, IF Len(snapshots) < 10 THEN Len(snapshots) ELSE 10)]

(* _parse_valgrind_output for the massif tool: {} when the file does not  *)
(* exist, else the parse of its content.                                   *)
parse_valgrind_output(exists, lines) ==
    IF exists THEN parse_massif_output(lines) ELSE NoProfile

-----------------------------------------------------------------------------
(* What valgrind --tool=massif writes: a header, then per snapshot a      *)
(* separator, its number, a separator, its time and its three memory      *)
(* figures, and its heap tree.                                            *)
SnapshotLines(n, s) ==
    << L("#-----------", 0), L("snapshot=", n), L("#-----------", 0),
       L("time=", s.time), L("mem_heap_B=", s.heap), L("mem_heap_extra_B=", s.extra),
       L("mem_stacks_B=", s.stacks), L("heap_tree=", 0) >>

MassifFile(snaps) ==
    << L("desc:", 0), L("cmd:", 0), L("time_unit:", 0) >>
      \o FlattenSeq([k \in DOMAIN snaps |-> SnapshotLines(k - 1, snaps[k])])

(* The files a run can leave: up to MaxSnapshots snapshots whose figures *)
(* are small numbers, heap and extra different so that taking one for    *)
(* the other shows.                                                       *)
MaxSnapshots == 2
Snapshot == [time : {0}, heap : {0, 2}, extra : {0, 3}, stacks : {0}]
MassifRuns == BoundedSeq(Snapshot, MaxSnapshots)

(* The peak heap of a run as massif measured it: the largest heap figure  *)
(* of its snapshots (0 for none).                                         *)
PeakHeap(snaps) ==
    IF snaps = <<>> THEN 0 ELSE Max({snaps[k].heap : k \in DOMAIN snaps})
=============================================================================
