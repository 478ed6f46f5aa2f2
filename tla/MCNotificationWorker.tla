------------------------ MODULE MCNotificationWorker ------------------------
EXTENDS NotificationWorker, TLC
Symmetry == Permutations(Polls)
=============================================================================
