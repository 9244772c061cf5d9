------------------------------- MODULE MCLink -------------------------------
(* Devices, setups and labels for TLC. *)
EXTENDS Link

CONSTANTS t1, t2

Devices == {"caller", "callee"}
Other(d) == CHOOSE p \in Devices : p # d

Voice == <<"a">>
Brace == <<"{", "a">>
Quote == <<"\"">>

Session(toks, ini, names, listens) ==
  [tokens |-> toks, calls |-> ini, labels |-> names, recv |-> listens]

\* The caller has two remotes; the callee is the one or the other, the other with
\* fewer channels than the caller, or does not receive.
SetupsOf(d) ==
  IF d = "caller"
  THEN {Session(<<t1, t2>>, {t1, t2}, <<Voice, Brace>>, TRUE)}
  ELSE {Session(<<t1>>, {}, <<Voice, Voice>>, TRUE), Session(<<t2>>, {}, <<Quote>>, TRUE),
        Session(<<t1>>, {}, <<Quote>>, FALSE)}

NewLabelsOf(d) == IF d = "caller" THEN {<<Voice, Voice>>} ELSE {<<Brace, Voice>>}
=============================================================================
