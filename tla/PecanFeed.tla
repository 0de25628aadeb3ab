----------------------------- MODULE PecanFeed -----------------------------
(*************************************************************************)
(* The two feeds of Pecan's store side by side: the WebSocket service and *)
(* the serial adapter, each with its own steps.                           *)
(*************************************************************************)
EXTENDS PecanSocket, SerialLink

\* Pecan's store is fed once: by one socket that is never given up, or by the serial adapter
\* alone, which keeps the socket out while it is there and lets it in again when it is gone.
StoreIsFed == OneSocketIngests /\ NeverAbandoned /\ WholeFrames /\ SuppressionOwned /\ OneSource

FeedSpec == SocketSpec /\ SerialSpec
=============================================================================
