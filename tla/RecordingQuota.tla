--------------------------- MODULE RecordingQuota ---------------------------
(* enforce_quota (video/recording.cpp), run before a file is opened and after*)
(* one is closed.  A file is its size, the time of its last write, whether   *)
(* it is a recording_*.mp4, whether its attributes can be read and whether   *)
(* it can be removed.                                                        *)
EXTENDS Integers, SequencesExt

(* The files that count, the oldest first. *)
Candidates(dir) ==
    SetToSortSeq({f \in dir : f.recording /\ f.readable}, LAMBDA f, g : f.time < g.time)

(* One file of the loop: skipped once the total fits; a file that cannot be  *)
(* removed still counts.                                                     *)
RemoveOne(s, f, quota) ==
    IF s.total <= quota \/ ~f.removable THEN s
    ELSE [total |-> s.total - f.size, dir |-> s.dir \ {f}]

enforce_quota(dir, quota) ==
    LET files == Candidates(dir)
        total == FoldLeft(LAMBDA n, f : n + f.size, 0, files)
    IN  FoldLeft(LAMBDA s, f : RemoveOne(s, f, quota), [total |-> total, dir |-> dir], files).dir
=============================================================================
