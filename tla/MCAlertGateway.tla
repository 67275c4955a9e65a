--------------------------- MODULE MCAlertGateway ----------------------------
(***************************************************************************)
(* Small instances of AlertGateway: two WebSockets that are alike, and an  *)
(* alert of each kind in turn.                                             *)
(***************************************************************************)
EXTENDS AlertGateway, TLC

MCKind == [a \in Alert |-> CASE a % 3 = 1 -> "timed"
                             [] a % 3 = 2 -> "malformed"
                             [] OTHER -> "untimed"]

Symmetric == Permutations(Client)

=============================================================================
