------------------------------ MODULE MCBuild ------------------------------
(* Four modules: app imports base and lib, lib imports base, core or app   *)
(* (a cycle), and has a source without registers or with two forks; core   *)
(* may have no source; base imports nothing.                               *)
EXTENDS Build

CONSTANTS app, base, core, lib
MCName == {app, base, core, lib}

(* app, base, core, lib.                                                   *)
Alphabet == <<app, base, core, lib>>
Alphabetical(m, n) == \E i, j \in DOMAIN Alphabet : i < j /\ Alphabet[i] = m /\ Alphabet[j] = n

Imports(ms) == [present |-> TRUE, imports |-> ms, allocates |-> TRUE, generates |-> TRUE]
Missing == [Imports({}) EXCEPT !.present = FALSE]
MCSource == [m \in MCName |->
    CASE m = app -> {Imports({base, lib}), Imports({lib})}
      [] m = base -> {Imports({}), [Imports({}) EXCEPT !.allocates = FALSE]}
      [] m = core -> {Imports({base}), Missing}
      [] m = lib -> {Imports({base, core}), Imports({app}), [Imports({core}) EXCEPT !.generates = FALSE]}]
=============================================================================
