----------------------------- MODULE MC_CachedDAO -----------------------------
(* The DAO stacks the runs build.  Position i of a Build is the i-th call. *)
EXTENDS CachedDAO, TLC

CONSTANTS a1, v1, v2, h1, k1, tA, tB

\* bc.dao = NewSimple(store); cache = NewCached(bc.dao), written by block processing.
MCSingle == << <<"NewSimple">>, <<"NewCached", 1>> >>
\* ... and a scope wrapped around the cache.
MCWrapped == MCSingle \o << <<"GetWrapped", 2>> >>
\* ... and an interop DAO over the cache: NewCached(cache).
MCNested == MCSingle \o << <<"NewCached", 2>> >>
\* ... and one more Cached over the interop DAO.
MCNested3 == MCNested \o << <<"NewCached", 3>> >>
=============================================================================
