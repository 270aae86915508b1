---------------------------- MODULE MCRemoteJobs ----------------------------
EXTENDS RemoteJobs, TLC

\* Nodes are interchangeable in every safety property.
NodeSymmetry == Permutations(Nodes)

\* Who writes a file is alone, and holds the claim on it (RemoteJobs).
WritersAreClaimed == SingleWriter /\ WriterHoldsClaim

\* An attempt is charged once for a job that ends, and never for a cancelled one that was
\* sent, and a node holds its report until the job has ended (RemoteJobs).
AttemptsAreEarned == AttemptOncePerJob /\ CancelCostsNoAttempt /\ ReportForgottenOnlyWhenEnded

\* Every report is acknowledged and every claim ends (RemoteJobs).
EverythingSettles == EveryReportAcknowledged /\ EveryClaimEnds
=============================================================================
