------------------------------ MODULE WorkerCall ------------------------------
(***************************************************************************)
(* What the caller of a schema worker is promised: a call on a module ends *)
(* either with a diagnostic or with the entries of all the exports of that *)
(* module, in order.  Never a part of them, and nothing when one threw.    *)
(***************************************************************************)
EXTENDS Integers, Sequences

CONSTANTS
  Modules  \* what the import of a source may yield, see Worker

VARIABLES
  calling,  \* the module the call under way imports, NoCall between calls
  outcome   \* what the last call returned

callVars == <<calling, outcome>>

NoCall == [called |-> FALSE, module |-> <<>>]
Diagnostic == [ok |-> FALSE, schemas |-> <<>>]
Envelope(schemas) == [ok |-> TRUE, schemas |-> schemas]

Throws(module) ==
  \E i \in DOMAIN module :
    module[i].extractable /\ module[i].yields \in {"throws", "unwritable"}

Answered(export) == export.extractable /\ export.yields = "entry"

(* The entries of the first n exports, for each n                          *)
EntriesOf(module) ==
  LET first[n \in 0 .. Len(module)] ==
        IF n = 0 THEN <<>>
        ELSE IF Answered(module[n]) THEN Append(first[n - 1], module[n].entry)
        ELSE first[n - 1]
  IN  first

Entries(module) == EntriesOf(module)[Len(module)]

CallInit ==
  /\ calling = NoCall
  /\ outcome = Diagnostic

CallBegin ==
  /\ calling = NoCall
  /\ \E m \in Modules : calling' = [called |-> TRUE, module |-> m]
  /\ UNCHANGED outcome

CallFails ==
  /\ calling # NoCall
  /\ calling' = NoCall
  /\ outcome' = Diagnostic

CallAnswers ==
  /\ calling # NoCall /\ ~ Throws(calling.module)
  /\ calling' = NoCall
  /\ outcome' = Envelope(Entries(calling.module))

CallSpec == CallInit /\ [][CallBegin \/ CallFails \/ CallAnswers]_callVars
=============================================================================
