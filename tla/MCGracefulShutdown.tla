-------------------------- MODULE MCGracefulShutdown --------------------------
(* Instances of GracefulShutdown for TLC. *)
EXTENDS GracefulShutdown

CONSTANTS c1, c2, cron, interval, w1

\* A job of node-cron, which has a stop method, and one of setInterval.
MCConn == {c1, c2}
MCChatty == {c2}
MCJob == {cron, interval}
MCStoppable == {cron}
MCWorker == {w1}
=============================================================================
