---------------------------- MODULE MCRecording -----------------------------
(* A queue of one and four access units: enough for a file of two units, a   *)
(* drop in the queue or at the appsrc, and a unit after it.                  *)
EXTENDS Recording, RecordingQuota

Total(files) == FoldSet(LAMBDA f, n : n + f.size, 0, files)

Kinds == [size : 1 .. 2, recording : BOOLEAN, readable : BOOLEAN, removable : BOOLEAN]

(* Only recordings go, the oldest first, no more than the quota asks for,    *)
(* and the rest fits unless every file that could go is gone.                *)
ASSUME QuotaKeepsNewest ==
    \A kinds \in [1 .. 3 -> Kinds], quota \in {0, 2, 3} :
        LET dir  == {[time |-> t, size |-> kinds[t].size, recording |-> kinds[t].recording,
                      readable |-> kinds[t].readable, removable |-> kinds[t].removable] :
                        t \in 1 .. 3}
            mine == {f \in dir : f.recording /\ f.readable}
            kept == enforce_quota(dir, quota)
            gone == dir \ kept
        IN  /\ gone \subseteq {f \in mine : f.removable}
            /\ \A f \in gone, g \in mine : g.removable /\ g.time < f.time => g \in gone
            /\ \A f \in gone : (\A g \in gone : g.time <= f.time)
                                 => Total((mine \cap kept) \union {f}) > quota
            /\ \/ Total(mine \cap kept) <= quota
               \/ gone = {f \in mine : f.removable}
=============================================================================
