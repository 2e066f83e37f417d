---- MODULE MCSharing ----
EXTENDS Sharing
====
