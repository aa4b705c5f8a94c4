---------------------------- MODULE PortAllocation ----------------------------
(***************************************************************************)
(* The TCP ports of the hosted applications: src/app/hosting_tools.js      *)
(* 22-105 and the two forms that use it.  The form jxconfig sets the range *)
(* and the number of ports per domain and numbers all domains anew; adding *)
(* a domain takes the first free ports of the range.                       *)
(*                                                                         *)
(* A handler runs from validation to assignment without a callback, so     *)
(* each is one step.                                                       *)
(***************************************************************************)
EXTENDS Integers, FiniteSets

CONSTANTS
    DomainNames,  \* names a domain may get
    LowPort,      \* defaultAppMinPort, site_defaults.js:97
    HighPort,     \* defaultAppMaxPort, site_defaults.js:98
    PortsPerDomain, \* the values tried for jx_app_port_per_domain
    Ranges        \* the ranges tried, pairs of the lowest and highest port

\* port_http or port_https is null or not set.
None == 0

ASSUME PortsAssumption ==
    /\ IsFiniteSet(DomainNames)
    /\ LowPort \in Nat \ {0}
    /\ HighPort \in Nat
    /\ LowPort < HighPort
    /\ PortsPerDomain \subseteq 1..10
    /\ Ranges \subseteq (LowPort..HighPort) \X (LowPort..HighPort)

VARIABLES
    Domains,  \* existing domain -> its ports
    Config    \* the stored configuration, or the defaults

vars == <<Domains, Config>>

Port == LowPort..HighPort

\* ports is the list setPortRange stores, empty when the domain has none.
DomainRecord ==
    [port_http : Nat, port_https : Nat, ports : SUBSET Nat]

\* text: the form has stored the number of ports as a string.
ConfigRecord ==
    [min : Port, max : Port, ppd : 1..10, text : BOOLEAN]

\* Ports are numbers, the stored range lies in the limits of the form and a
\* domain gets at least one port.
TypeOK ==
    /\ DOMAIN Domains \subseteq DomainNames
    /\ \A d \in DOMAIN Domains : Domains[d] \in DomainRecord
    /\ Config \in ConfigRecord

Init ==
    /\ Domains = [d \in {} |-> None]
    /\ Config = [min |-> LowPort, max |-> HighPort, ppd |-> 1, text |-> FALSE]

-----------------------------------------------------------------------------
(* What is free.                                                           *)

domainCount == Cardinality(DOMAIN Domains)

\* getTakenPorts: the list of a domain counts, or else its port_http alone.
TakenBy(d) ==
    IF Domains[d].ports # {} THEN Domains[d].ports ELSE {Domains[d].port_http}

getTakenPorts == UNION {TakenBy(d) : d \in DOMAIN Domains}

\* The ports the loop of getFreePorts collects its result from, lowest first.
freeInRange == (Config.min .. Config.max) \ getTakenPorts

IsLowest(p, S) == p \in S /\ \A q \in S : p <= q

-----------------------------------------------------------------------------
(* The form jxconfig.                                                      *)

\* Mutant: the range may be as small as the form likes.
validMaxPortAlways(min, max) == min < max

\* validations.Int and MaxPort.  The range is checked against the number of
\* ports per domain that is stored, not the one on the form.
validMaxPort(min, max) ==
    /\ min < max
    /\ max - min >= domainCount * Config.ppd

\* Mutant: the next domain starts one port further, whatever its number.
setPortRangeByOne(min, max, ppd, rank) ==
    [d \in DOMAIN Domains |->
        LET current == min + rank[d]
            ok      == current <= max - ppd
        IN  [port_http  |-> IF ok THEN current ELSE None,
             port_https |-> IF ppd = 1 THEN Domains[d].port_https
                            ELSE IF ok THEN current + 1 ELSE None,
             ports      |-> current .. current + ppd - 1]]

\* rank is the place of a domain in the database's order.  A domain that comes
\* too late in the range gets null ports, and the list all the same.
setPortRange(min, max, ppd, rank) ==
    [d \in DOMAIN Domains |->
        LET current == min + rank[d] * ppd
            ok      == current <= max - ppd
        IN  [port_http  |-> IF ok THEN current ELSE None,
             port_https |-> IF ppd = 1 THEN Domains[d].port_https
                            ELSE IF ok THEN current + 1 ELSE None,
             ports      |-> current .. current + ppd - 1]]

\* The order the domains have in the database is arbitrary here.
Ranks ==
    {rank \in [DOMAIN Domains -> 0 .. domainCount - 1] :
        \A d, e \in DOMAIN Domains : rank[d] = rank[e] => d = e}

\* Mutant: the number of ports besides port_http is stored.
ApplyConfigExtra(min, max, ppd) ==
    /\ validMaxPort(min, max)
    /\ \E rank \in Ranks : Domains' = setPortRange(min, max, ppd, rank)
    /\ Config' = [min |-> min, max |-> max, ppd |-> ppd - 1, text |-> TRUE]

ApplyConfig(min, max, ppd) ==
    /\ validMaxPort(min, max)
    /\ \E rank \in Ranks : Domains' = setPortRange(min, max, ppd, rank)
    /\ Config' = [min |-> min, max |-> max, ppd |-> ppd, text |-> TRUE]

-----------------------------------------------------------------------------
(* The form addDomain and the removal of domains.                          *)

\* Mutant: room for the domains that are there, not for one more.
neededWithoutNew == domainCount * Config.ppd

\* What "+" makes of domainCount * ppd and ppd: a sum of two numbers, but the
\* digits of both in a row when ppd is the string the form stored.
needed ==
    LET product == domainCount * Config.ppd
        shift   == IF Config.ppd < 10 THEN 10 ELSE 100
    IN  (IF Config.text THEN product * shift ELSE product) + Config.ppd

\* validations.Domain and SubDomain.
validDomain == Config.max - Config.min >= needed

\* getFreePorts found as many ports as a domain gets.
freePortsFound == Cardinality(freeInRange) >= Config.ppd

\* Mutant: ports are taken from the bottom of the range, taken or not.
AddDomainUnasked(name, http, https) ==
    /\ name \notin DOMAIN Domains
    /\ validDomain
    /\ http = Config.min
    /\ https = None
    /\ Domains' = [d \in DOMAIN Domains \cup {name} |->
                      IF d = name
                      THEN [port_http |-> http, port_https |-> https, ports |-> {}]
                      ELSE Domains[d]]
    /\ UNCHANGED Config

\* The new domain gets the first port and, with more than one port per
\* domain, the second; no list is stored.
AddDomain(name, http, https) ==
    /\ name \notin DOMAIN Domains
    /\ validDomain
    /\ freePortsFound
    /\ IsLowest(http, freeInRange)
    /\ IF Config.ppd = 1 THEN https = None
       ELSE IsLowest(https, freeInRange \ {http})
    /\ Domains' = [d \in DOMAIN Domains \cup {name} |->
                      IF d = name
                      THEN [port_http |-> http, port_https |-> https, ports |-> {}]
                      ELSE Domains[d]]
    /\ UNCHANGED Config

\* deleteDomain, as far as the ports go.
RemoveDomain(name) ==
    /\ name \in DOMAIN Domains
    /\ Domains' = [d \in DOMAIN Domains \ {name} |-> Domains[d]]
    /\ UNCHANGED Config

Next ==
    \/ \E min, max \in Port, ppd \in PortsPerDomain :
          <<min, max>> \in Ranges /\ ApplyConfig(min, max, ppd)
    \/ \E name \in DomainNames, http \in Port, https \in Port \cup {None} :
          AddDomain(name, http, https)
    \/ \E name \in DomainNames : RemoveDomain(name)

Spec == Init /\ [][Next]_vars

-----------------------------------------------------------------------------
(* Properties.                                                             *)

\* The ports the spawner is told to listen on, hosting_tools.js:384-385.
Listens(d) == {Domains[d].port_http, Domains[d].port_https} \ {None}

\* No two applications are given the same port: "how many ports should be
\* allocated per each domain", docs/jxcore.markdown:51.
NoSharedPort ==
    \A d, e \in DOMAIN Domains : d # e => Listens(d) \cap Listens(e) = {}

\* As long as a domain gets one port, the http ports differ, whatever numbers
\* were set before: a renumbering leaves no port behind that the search for
\* free ports does not see (hosting_tools.js:23-105).
OnePortApart ==
    Config.ppd = 1 =>
        \A d, e \in DOMAIN Domains : d # e => Domains[d].port_http # Domains[e].port_http

\* And every domain has one, in the stored range: the range was checked with
\* the number stored before, which is no less than one (validations.js:174).
OnePortInRange ==
    Config.ppd = 1 =>
        \A d \in DOMAIN Domains : Domains[d].port_http \in Config.min .. Config.max

\* The validation of a new domain (validations.js:251-256) makes the handler's
\* own test (form_methods.js:466) superfluous: an admitted domain finds ports.
AdmittedFindsPorts == validDomain => freePortsFound

\* setPortRange (hosting_tools.js:23-55) deals every domain a block of its own.
RenumberedApart ==
    [][Config' # Config =>
        \A d, e \in DOMAIN Domains' :
            d # e => Domains'[d].ports \cap Domains'[e].ports = {}]_vars

\* "if Ports per domain is set to 2, and currently there are 50 domains
\* registered in JXpanel, then the port range cannot be less than 100",
\* docs/jxcore.markdown:57-58.
RangeHoldsDomains == Config.max - Config.min >= domainCount * Config.ppd

\* "The port range should be greater than domain count multiplied by defined
\* number of ports per domain", docs/jxcore.markdown:55: with room for one
\* more domain, one more domain is admitted.
RoomAdmits ==
    Config.max - Config.min >= (domainCount + 1) * Config.ppd => validDomain
=============================================================================
