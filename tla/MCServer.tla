---- MODULE MCServer ----
EXTENDS SubmissionServer, TLC
RequestSymmetry == Permutations(Requests)
====
