---------------------------- MODULE MCEventWatcher ----------------------------
(***************************************************************************)
(* A small instance of EventWatcher for TLC: one pod that backs off, one   *)
(* that fails its probe, and notices the watcher ignores.                  *)
(***************************************************************************)
EXTENDS EventWatcher, TLC

Notice(o, r, w) == [object |-> o, kind |-> "Pod", reason |-> r, warning |-> w]

MCNotices == {Notice("a", "BackOff", TRUE), Notice("b", "Unhealthy", TRUE),
              Notice("a", "Killing", TRUE)}
=============================================================================
