------------------------------ MODULE MCInbox ------------------------------
(* Instances of InboundInbox for TLC. *)
EXTENDS InboundInbox, TLC

CONSTANTS m1, m2, m3, w1, w2, s1, s2, c1

OneCompany == [m \in Mails |-> c1]
OneInstallation == OneCompany
TwoInstallations == [m \in Mails |-> IF m = m3 THEN m3 ELSE c1]
AlwaysAccepted == Mails \X (0 .. MaxEdits)
SmtpClosesForGood == (Mails \X {0}) \cup ((Mails \ Direct) \X {2})
DropsOnce == Direct \X {1}
ActorSymmetry == Permutations(Workers) \cup Permutations(Sessions)
============================================================================
