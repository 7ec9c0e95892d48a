---- MODULE MCSystemTaskLease ----
EXTENDS SystemTaskLease
====
