---- MODULE MCReplication ----
EXTENDS Replication
====
