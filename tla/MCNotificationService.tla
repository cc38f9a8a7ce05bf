----------------------- MODULE MCNotificationService -----------------------
(***************************************************************************)
(* Instance of NotificationService with the symmetry of its ids.           *)
(***************************************************************************)
EXTENDS NotificationService, TLC

Symmetry == Permutations(Sessions) \cup Permutations(Templates) \cup Permutations(Names)
=============================================================================
