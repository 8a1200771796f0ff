---------------------------- MODULE MCGraphLoading ----------------------------
(***************************************************************************)
(* A chain of three towers that serves a region, asked about its first     *)
(* tower.                                                                  *)
(***************************************************************************)
EXTENDS GraphLoading, TLC

CONSTANTS a, b, c

MCNodes == <<a, b, c>>
MCLinks == <<<<a, "UPSTREAM_OF", b>>, <<b, "UPSTREAM_OF", c>>, <<a, "SERVES", c>>>>
MCQueries == [tower: {a}, hops: {1, 2}]
===============================================================================
