-------------------------- MODULE MCConnectionPool --------------------------
(* A small instance of ConnectionPool for TLC. *)
EXTENDS ConnectionPool, TLC

CONSTANTS r1, r2, w1, w2, s1, s2, s3

\* As many streams as connections and one more; every job has one.
MCAbout == s1 :> 1 @@ s2 :> 1 @@ s3 :> MaxJobs
=============================================================================
