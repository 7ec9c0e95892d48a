---- MODULE MCAuthSession ----
EXTENDS AuthSession, TLC
CONSTANTS t1, t2
MCTabs == {t1, t2}
TabSymmetry == Permutations(MCTabs)
====
