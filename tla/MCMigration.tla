----------------------------- MODULE MCMigration -----------------------------
(***************************************************************************)
(* A small instance of Migration: images of two releases, one with two     *)
(* files of one version, one with a failing file and one with a file whose *)
(* name does not parse.                                                    *)
(***************************************************************************)
EXTENDS Migration

Up(v, name) == [version |-> v, name |-> name, up |-> TRUE, sql |-> "ok"]

Release1 == {Up(1, "a"), Up(2, "a")}
Release2 == Release1 \cup {Up(3, "a"), [Up(3, "a") EXCEPT !.up = FALSE]}

\* An empty database, or one an earlier release has migrated.
MCInstalled == {<<>>, <<Up(1, "a")>>}

MCDirectories ==
    {Release1, Release2,
     Release1 \cup {Up(2, "b")},
     Release1 \cup {[Up(3, "a") EXCEPT !.sql = "bad"]},
     Release1 \cup {Up(None, "a")}}

ASSUME MCReleasesGrow == ReleasesGrow
=============================================================================
