--------------------------- MODULE MCTransformGate ---------------------------
(***************************************************************************)
(* Two subsystems that share no state, checked by one run: the initial     *)
(* state chooses the one that the behaviour exercises, and the other stays *)
(* as it is at the start.                                                  *)
(***************************************************************************)
EXTENDS TransformGate, ProxyRules

VARIABLE exercised

all == <<exercised, vars, edited, prVars>>

OneToTwo == 1 .. 2
OneToThree == 1 .. 3

\* A site, one below it and one above it.
Site == <<"com", "a">>
Below == <<"com", "a", "b">>
FourAddresses ==
    {[host |-> Site, page |-> 1], [host |-> Site, page |-> 2], [host |-> Below, page |-> 1],
     [host |-> <<"com">>, page |-> 1]}
SomeAddresses == {[host |-> Site, page |-> 2], [host |-> Below, page |-> 1]}

OneProfile == {"p"}
ThreeValues ==
    {[kind |-> "fixed_servers", server |-> 1], [kind |-> "fixed_servers", server |-> 2],
     [kind |-> "pac_script", server |-> 1]}

\* Routing a site makes exact hosts, too.
FourConditions ==
    {DottedCondition("host_suffix", Site),
     HostCondition("host_wildcard", Site),
     TextCondition("keyword", SomeAddresses),
     [TextCondition("url_regex", {}) EXCEPT !.valid = FALSE]}

Line(form, exception, result) ==
    [form |-> form, exception |-> exception, result |-> result,
     domain |-> IF form \in {"domain", "subdomain", "dots"} THEN Site ELSE <<>>,
     hits |-> IF form = "text" THEN SomeAddresses ELSE {}]

FourTexts ==
    {[format |-> "autoproxy", results |-> FALSE,
      lines |-> <<Line("comment", FALSE, "none"), Line("text", FALSE, "none"), Line("domain", TRUE, "none"),
                  Line("element", FALSE, "none"), Line("text", FALSE, "none")>>],
     [format |-> "switchyomega", results |-> TRUE,
      lines |-> <<Line("text", FALSE, "p"), Line("star", FALSE, "direct"), Line("subdomain", TRUE, "none"),
                  Line("domain", FALSE, "gone"), Line("broken", FALSE, "none")>>],
     [format |-> "hosts", results |-> FALSE,
      lines |-> <<Line("subdomain", FALSE, "none"), Line("domain", FALSE, "none"), Line("star", FALSE, "none")>>],
     [format |-> "autoproxy", results |-> FALSE,
      lines |-> <<Line("dots", FALSE, "none"), Line("domain", TRUE, "none"), Line("dots", FALSE, "none")>>]}

MCInit ==
    /\ exercised \in {"gate", "routing"}
    /\ Init /\ (exercised # "gate" => limit = MaxLimit) /\ NoEdits
    /\ PrInit
    \* Beside a source one condition is enough: saving a rule makes the others.
    /\ prStored.source # NoSource => \A r \in prStored.rules : r.condition.type = "host_wildcard"
    /\ exercised # "routing" =>
         /\ prStored.source = NoSource
         /\ \A r \in prStored.rules : r.order = r.place /\ r.condition.type = "host_wildcard"

MCNext ==
    /\ UNCHANGED exercised
       \* A profile that was deleted is not deleted again.
    /\ \/ /\ exercised = "gate" /\ Next /\ EditNoted /\ UNCHANGED prVars
          /\ limit = 0 => ~deleting'
       \/ exercised = "routing" /\ PrSteps /\ UNCHANGED <<edited, vars>>
       \* The user has done enough.
       \/ prOperations = MaxPrOperations /\ UNCHANGED <<edited, vars, prVars>>

MCSpec ==
    /\ MCInit
    /\ [][MCNext]_all
    /\ \A e \in Executions : WF_vars(Resume(e)) /\ WF_vars(Transfer(e) \/ Free(e))
=============================================================================
