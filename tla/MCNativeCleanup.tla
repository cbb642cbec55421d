-------------------------- MODULE MCNativeCleanup ---------------------------
(* Two batches that share a thread and file it differently. *)
EXTENDS NativeCleanup, TLC

CONSTANTS i1, i2, t1, t2

mcThreadsOf == (i1 :> {t1, t2}) @@ (i2 :> {t2})
mcTarget == (i1 :> "ARCHIVE") @@ (i2 :> "TRASH")

mcFiled == {[thread |-> t1, to |-> "INBOX"]}

Symmetry == Permutations(Callers)
=============================================================================
