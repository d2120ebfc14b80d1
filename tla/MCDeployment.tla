---------------------------- MODULE MCDeployment -----------------------------
(* An instance of Deployment for TLC: a rollout from an image with one        *)
(* migration to one with three, with a replica of each and runs that meet.    *)
EXTENDS Deployment

CONSTANTS m1, m2, m3, old, new

MCImage == [m \in Runs |-> IF m = m1 THEN 1 ELSE 3]
MCEmbedded == [r \in Replicas |-> IF r = old THEN 1 ELSE 3]
=============================================================================
