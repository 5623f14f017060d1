----------------------------- MODULE StaleTable -----------------------------
(***************************************************************************)
(* Scheduler in a process whose application allocates memory of its own.   *)
(* co_free gives a record back to the allocator but leaves its pointer in  *)
(* S.all; once the application has been given that block, the scan of      *)
(* wakeup_waiters reads, and may write, the application's data.            *)
(***************************************************************************)
EXTENDS Scheduler

(* The application is given a block that an earlier co_free released. *)
malloc(b) ==
    /\ InApplication
    /\ owner[b] = "nobody"
    /\ b \in Range(all)
    /\ owner' = [owner EXCEPT ![b] = "application"]
    /\ UNCHANGED <<state, awaiting, id, all, queue, running, cpu, failed>>

StaleNext == Next \/ \E b \in Blocks : malloc(b)

StaleSpec == Init /\ [][StaleNext]_vars

(* wakeup_waiters moves coroutines back to READY (line 123) and nothing     *)
(* else: whatever is in the run queue is a coroutine that has not been      *)
(* freed.  The documented use, co_free once a coroutine is CO_DONE, does    *)
(* not keep to it.                                                          *)
OnlyCoroutinesQueued == Range(queue) \subseteq Live
=============================================================================
