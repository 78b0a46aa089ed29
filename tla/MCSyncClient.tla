----------------------------- MODULE MCSyncClient -----------------------------
(* Instances of SyncClient for TLC. *)
EXTENDS SyncClient

CONSTANTS app1, app2, o1, conn

\* publish(const message&) is called by the application only.
AppsOnly == Apps

\* It is called from the asynchronous callbacks as well.
AppsAndTask == Apps \union {Task}
===============================================================================
