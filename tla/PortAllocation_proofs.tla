------------------------ MODULE PortAllocation_proofs -------------------------
(* Proofs about PortAllocation, for all sets of domains, limits and ranges.  *)
EXTENDS PortAllocation, FiniteSetTheorems, TLAPS

-----------------------------------------------------------------------------
(* Type correctness.                                                       *)

\* The number of domains is a number.
LEMMA CountType ==
  ASSUME TypeOK
  PROVE  domainCount \in Nat
<1>1. IsFiniteSet(DOMAIN Domains)
  BY PortsAssumption, FS_Subset DEF TypeOK
<1>2. QED
  BY <1>1, FS_CardinalityType DEF domainCount

\* A submitted configuration and the ports setPortRange deals are records.
LEMMA ApplyConfigType ==
  ASSUME TypeOK, NEW min \in Port, NEW max \in Port, NEW ppd \in PortsPerDomain,
         ApplyConfig(min, max, ppd)
  PROVE  TypeOK'
<1>1. PICK rank \in Ranks : Domains' = setPortRange(min, max, ppd, rank)
  BY DEF ApplyConfig
<1>2. ppd \in 1..10 /\ min \in Nat /\ max \in Nat
  BY PortsAssumption DEF Port
<1>3. ASSUME NEW d \in DOMAIN Domains
      PROVE  Domains'[d] \in DomainRecord
  <2> DEFINE current == min + rank[d] * ppd
  <2>1. rank[d] \in Nat
    BY <1>1, CountType DEF Ranks
  <2>2. rank[d] * ppd \in Nat
    BY <1>2, <2>1
  <2>3. current \in Nat
    BY <1>2, <2>2
  <2>4. Domains[d].port_https \in Nat
    BY DEF TypeOK, DomainRecord
  <2>5. Domains'[d] =
          [port_http  |-> IF current <= max - ppd THEN current ELSE None,
           port_https |-> IF ppd = 1 THEN Domains[d].port_https
                          ELSE IF current <= max - ppd THEN current + 1 ELSE None,
           ports      |-> current .. current + ppd - 1]
    BY <1>1 DEF setPortRange
  <2> HIDE DEF current
  <2>6. current .. current + ppd - 1 \in SUBSET Nat
    BY <1>2, <2>3
  <2>7. QED
    BY <1>2, <2>3, <2>4, <2>5, <2>6 DEF DomainRecord, None
<1>4. DOMAIN Domains' = DOMAIN Domains
  BY <1>1 DEF setPortRange
<1>5. Config' \in ConfigRecord
  BY <1>2 DEF ApplyConfig, ConfigRecord
<1>6. QED
  BY <1>3, <1>4, <1>5 DEF TypeOK

\* Every action keeps the type.
LEMMA NextType ==
  ASSUME TypeOK, [Next]_vars
  PROVE  TypeOK'
<1>1. ASSUME NEW name \in DomainNames, NEW http \in Port,
             NEW https \in Port \cup {None}, AddDomain(name, http, https)
      PROVE  TypeOK'
  <2>1. [port_http |-> http, port_https |-> https, ports |-> {}] \in DomainRecord
    BY PortsAssumption DEF DomainRecord, Port, None
  <2>2. QED
    BY <1>1, <2>1 DEF AddDomain, TypeOK
<1>2. ASSUME NEW name \in DomainNames, RemoveDomain(name)
      PROVE  TypeOK'
  BY <1>2 DEF RemoveDomain, TypeOK
<1>3. CASE vars' = vars
  BY <1>3 DEF vars, TypeOK
<1>4. QED
  BY <1>1, <1>2, <1>3, ApplyConfigType DEF Next

\* The configuration and the ports have the shapes the code stores.
THEOREM TypeCorrect == Spec => []TypeOK
<1>1. Init => TypeOK
  BY PortsAssumption DEF Init, TypeOK, ConfigRecord, Port
<1>2. QED
  BY <1>1, NextType, PTL DEF Spec

-----------------------------------------------------------------------------
(* While a domain gets one port.                                           *)

\* A list, where there is one, holds the http port and nothing else, so what
\* getTakenPorts collects is exactly the http ports in use.
Single ==
    Config.ppd = 1 =>
        \A d \in DOMAIN Domains : Domains[d].ports \in {{}, {Domains[d].port_http}}

\* The inductive invariant.
SingleInv == TypeOK /\ Single /\ OnePortInRange /\ OnePortApart

\* The range was checked with the number stored before, which is at least one.
LEMMA RangeHoldsOneEach ==
  ASSUME TypeOK, NEW min \in Port, NEW max \in Port, validMaxPort(min, max)
  PROVE  domainCount <= max - min
<1>1. domainCount \in Nat
  BY CountType
<1>2. /\ Config.ppd \in {1, 2, 3, 4, 5, 6, 7, 8, 9, 10}
      /\ min \in Int /\ max \in Int
  BY PortsAssumption DEF TypeOK, ConfigRecord, Port
<1>3. domainCount <= domainCount * Config.ppd
  BY <1>1, <1>2
<1>4. domainCount * Config.ppd \in Int
  BY <1>1, <1>2
<1>5. QED
  BY <1>1, <1>2, <1>3, <1>4 DEF validMaxPort

LEMMA SingleApply ==
  ASSUME TypeOK, NEW min \in Port, NEW max \in Port,
         NEW ppd \in PortsPerDomain, ApplyConfig(min, max, ppd)
  PROVE  (Single /\ OnePortInRange /\ OnePortApart)'
<1>1. Config'.min = min /\ Config'.max = max /\ Config'.ppd = ppd
  BY DEF ApplyConfig
<1> SUFFICES ASSUME ppd = 1
             PROVE  (Single /\ OnePortInRange /\ OnePortApart)'
  BY <1>1 DEF Single, OnePortInRange, OnePortApart
<1>2. PICK rank \in Ranks : Domains' = setPortRange(min, max, ppd, rank)
  BY DEF ApplyConfig
<1>3. /\ domainCount \in Nat /\ min \in Int /\ max \in Int
      /\ domainCount <= max - min
  BY PortsAssumption, CountType, RangeHoldsOneEach DEF ApplyConfig, Port
<1>4. \A d \in DOMAIN Domains : rank[d] \in 0 .. domainCount - 1
  BY DEF Ranks
<1>5. ASSUME NEW d \in DOMAIN Domains
      PROVE  /\ min + rank[d] \in min .. max
             /\ Domains'[d].port_http = min + rank[d]
             /\ Domains'[d].ports = {min + rank[d]}
  <2>1. rank[d] \in Int /\ 0 <= rank[d] /\ min + rank[d] <= max - 1
    BY <1>3, <1>4
  <2> DEFINE current == min + rank[d] * ppd
  <2>2. /\ Domains'[d].port_http = IF current <= max - ppd THEN current ELSE None
        /\ Domains'[d].ports = current .. current + ppd - 1
    BY <1>2 DEF setPortRange
  <2>3. current = min + rank[d] /\ current <= max - ppd
    BY <1>3, <2>1
  <2> HIDE DEF current
  <2>4. current + ppd - 1 = current /\ current .. current = {current}
    BY <1>3, <2>1, <2>3
  <2>5. min + rank[d] \in min .. max
    BY <1>3, <2>1
  <2>6. QED
    BY <2>2, <2>3, <2>4, <2>5
<1>6. DOMAIN Domains' = DOMAIN Domains
  BY <1>2 DEF setPortRange
<1>7. ASSUME NEW d \in DOMAIN Domains, NEW e \in DOMAIN Domains, d # e
      PROVE  min + rank[d] # min + rank[e]
  BY <1>3, <1>4, <1>7 DEF Ranks
<1>8. OnePortApart'
  BY <1>5, <1>6, <1>7 DEF OnePortApart
<1>9. QED
  BY <1>1, <1>5, <1>6, <1>8 DEF Single, OnePortInRange

LEMMA SingleAdd ==
  ASSUME SingleInv, NEW name \in DomainNames, NEW http \in Port,
         NEW https, AddDomain(name, http, https)
  PROVE  (Single /\ OnePortInRange /\ OnePortApart)'
<1>1. /\ name \notin DOMAIN Domains
      /\ DOMAIN Domains' = DOMAIN Domains \cup {name}
      /\ Domains'[name].port_http = http
      /\ Domains'[name].ports = {}
      /\ \A d \in DOMAIN Domains : Domains'[d] = Domains[d]
      /\ Config' = Config
  BY DEF AddDomain
<1>2. http \in Config.min .. Config.max /\ http \notin getTakenPorts
  BY DEF AddDomain, IsLowest, freeInRange
<1>3. Config.ppd = 1 => \A d \in DOMAIN Domains : Domains[d].port_http # http
  BY <1>2 DEF getTakenPorts, TakenBy, SingleInv, Single
<1>4. OnePortApart'
  BY <1>1, <1>3 DEF OnePortApart, SingleInv
<1>5. QED
  BY <1>1, <1>2, <1>4 DEF Single, OnePortInRange, SingleInv

\* While a domain gets one port, no two domains share their http port and
\* every one lies in the range, whatever numbers and ranges were set before.
THEOREM OnePortEach == Spec => [](OnePortApart /\ OnePortInRange)
<1>1. Init => SingleInv
  BY PortsAssumption
     DEF Init, SingleInv, Single, OnePortInRange, OnePortApart, TypeOK, ConfigRecord, Port
<1>2. SingleInv /\ [Next]_vars => SingleInv'
  <2> SUFFICES ASSUME SingleInv, [Next]_vars
               PROVE  SingleInv'
    OBVIOUS
  <2>1. TypeOK'
    BY NextType DEF SingleInv
  <2>2. ASSUME NEW name \in DomainNames, RemoveDomain(name)
        PROVE  (Single /\ OnePortInRange /\ OnePortApart)'
    BY <2>2 DEF RemoveDomain, SingleInv, Single, OnePortInRange, OnePortApart
  <2>3. CASE vars' = vars
    BY <2>1, <2>3 DEF vars, SingleInv, Single, OnePortInRange, OnePortApart
  <2>4. QED
    BY <2>1, <2>2, <2>3, SingleApply, SingleAdd DEF Next, SingleInv
<1>3. SingleInv => OnePortApart /\ OnePortInRange
  BY DEF SingleInv
<1>4. QED
  BY <1>1, <1>2, <1>3, PTL DEF Spec

\* The second half by itself: every http port lies in the range in force.
THEOREM InRange == Spec => []OnePortInRange
  BY OnePortEach, PTL

-----------------------------------------------------------------------------
(* With any number of ports per domain.                                    *)

\* Blocks of k ports that start at different multiples of k do not meet.
LEMMA BlocksApart ==
  ASSUME NEW i \in Nat, NEW j \in Nat, i < j, NEW k \in 1..10
  PROVE  i * k + k <= j * k
<1>1. k \in {1, 2, 3, 4, 5, 6, 7, 8, 9, 10}
  OBVIOUS
<1>2. QED
  BY <1>1

\* setPortRange deals disjoint blocks, whatever the range and the number.
THEOREM DealtApart == Spec => RenumberedApart
<1>1. ASSUME TypeOK, [Next]_vars
      PROVE  [Config' # Config =>
                \A d, e \in DOMAIN Domains' :
                    d # e => Domains'[d].ports \cap Domains'[e].ports = {}]_vars
  <2> SUFFICES ASSUME NEW min \in Port, NEW max \in Port, NEW ppd \in PortsPerDomain,
                      ApplyConfig(min, max, ppd),
                      NEW d \in DOMAIN Domains', NEW e \in DOMAIN Domains', d # e
               PROVE  Domains'[d].ports \cap Domains'[e].ports = {}
    BY <1>1 DEF Next, AddDomain, RemoveDomain, vars
  <2>1. PICK rank \in Ranks : Domains' = setPortRange(min, max, ppd, rank)
    BY DEF ApplyConfig
  <2>2. ppd \in 1..10 /\ min \in Nat
    BY PortsAssumption DEF Port
  <2>3. d \in DOMAIN Domains /\ e \in DOMAIN Domains
    BY <2>1 DEF setPortRange
  <2>4. rank[d] \in Nat /\ rank[e] \in Nat /\ rank[d] # rank[e]
    BY <1>1, <2>1, <2>3, CountType DEF Ranks
  <2> DEFINE m == rank[d] * ppd
             n == rank[e] * ppd
  <2>5. m \in Nat /\ n \in Nat /\ (m + ppd <= n \/ n + ppd <= m)
    BY <2>2, <2>4, BlocksApart
  <2>6. /\ Domains'[d].ports = (min + m) .. (min + m + ppd - 1)
        /\ Domains'[e].ports = (min + n) .. (min + n + ppd - 1)
    BY <2>1, <2>3 DEF setPortRange
  <2> HIDE DEF m, n
  <2>7. QED
    BY <2>2, <2>5, <2>6
<1>2. QED
  BY <1>1, TypeCorrect, PTL DEF Spec, RenumberedApart

-----------------------------------------------------------------------------
(* The room that the validation of a new domain asks for.                    *)

\* What a domain takes lies in a block of as many ports as are configured now:
\* setPortRange deals every domain anew, and adding one takes a single port.
Block(d, low) == low \in Nat /\ TakenBy(d) \subseteq low .. low + Config.ppd - 1
Blocks == \A d \in DOMAIN Domains : \E low \in Nat : Block(d, low)

LEMMA BlocksInit ==
  ASSUME Init
  PROVE  Blocks
BY DEF Init, Blocks

LEMMA BlocksApply ==
  ASSUME TypeOK, NEW min \in Port, NEW max \in Port, NEW ppd \in PortsPerDomain,
         ApplyConfig(min, max, ppd)
  PROVE  Blocks'
<1>1. PICK rank \in Ranks : Domains' = setPortRange(min, max, ppd, rank)
  BY DEF ApplyConfig
<1>2. ppd \in 1..10 /\ min \in Nat /\ Config'.ppd = ppd
  BY PortsAssumption DEF Port, ApplyConfig
<1>3. ASSUME NEW d \in DOMAIN Domains
      PROVE  \E low \in Nat : Block(d, low)'
  <2>1. rank[d] \in Nat
    BY <1>1, CountType DEF Ranks
  <2>2. PICK low \in Nat : low = min + rank[d] * ppd
    BY <1>2, <2>1
  <2>3. Domains'[d].ports = low .. low + ppd - 1
    BY <1>1, <2>2 DEF setPortRange
  <2>4. low \in Domains'[d].ports
    BY <1>2, <2>3
  <2>5. TakenBy(d)' = low .. low + ppd - 1
    BY <2>3, <2>4 DEF TakenBy
  <2>6. QED
    BY <1>2, <2>5 DEF Block
<1>4. DOMAIN Domains' = DOMAIN Domains
  BY <1>1 DEF setPortRange
<1>5. QED
  BY <1>3, <1>4 DEF Blocks, Block, TakenBy

LEMMA BlocksAdd ==
  ASSUME TypeOK, Blocks, NEW name \in DomainNames, NEW http \in Port, NEW https,
         AddDomain(name, http, https)
  PROVE  Blocks'
<1>1. /\ DOMAIN Domains' = DOMAIN Domains \cup {name}
      /\ Domains'[name].port_http = http
      /\ Domains'[name].ports = {}
      /\ \A d \in DOMAIN Domains : Domains'[d] = Domains[d]
      /\ Config' = Config
  BY DEF AddDomain
<1>2. Config.ppd \in 1..10 /\ http \in Nat
  BY PortsAssumption DEF TypeOK, ConfigRecord, Port
<1>3. http \in http .. http + Config.ppd - 1
  BY <1>2
<1>4. TakenBy(name)' = {http}
  BY <1>1 DEF TakenBy
<1>5. Block(name, http)'
  BY <1>1, <1>2, <1>3, <1>4 DEF Block
<1>6. ASSUME NEW d \in DOMAIN Domains
      PROVE  \E low \in Nat : Block(d, low)'
  <2>1. TakenBy(d)' = TakenBy(d)
    BY <1>1 DEF TakenBy
  <2>2. QED
    BY <1>1, <2>1 DEF Blocks, Block
<1>7. QED
  BY <1>1, <1>2, <1>5, <1>6 DEF Blocks

\* So the domains take at most their number times the ports per domain: a port
\* is told from the others by who takes it and its place in the block.
LEMMA TakenBound ==
  ASSUME TypeOK, Blocks
  PROVE  /\ IsFiniteSet(getTakenPorts)
         /\ Cardinality(getTakenPorts) <= domainCount * Config.ppd
<1> DEFINE low == [d \in DOMAIN Domains |-> CHOOSE n \in Nat : Block(d, n)]
           owner == [p \in getTakenPorts |-> CHOOSE d \in DOMAIN Domains : p \in TakenBy(d)]
           place == [p \in getTakenPorts |-> <<owner[p], p - low[owner[p]]>>]
           Places == (DOMAIN Domains) \X (0 .. Config.ppd - 1)
<1>1. Config.ppd \in 1..10
  BY DEF TypeOK, ConfigRecord
<1>2. \A d \in DOMAIN Domains : low[d] \in Nat /\ Block(d, low[d])
  BY DEF Blocks
<1>3. \A p \in getTakenPorts : owner[p] \in DOMAIN Domains /\ p \in TakenBy(owner[p])
  BY DEF getTakenPorts
<1> HIDE DEF low, owner
<1>4. ASSUME NEW p \in getTakenPorts
      PROVE  p \in Int /\ low[owner[p]] \in Nat
             /\ p - low[owner[p]] \in 0 .. Config.ppd - 1
  BY <1>1, <1>2, <1>3 DEF Block
<1>5. place \in [getTakenPorts -> Places]
  BY <1>3, <1>4
<1>6. ASSUME NEW p \in getTakenPorts, NEW q \in getTakenPorts, place[p] = place[q]
      PROVE  p = q
  <2>1. owner[p] = owner[q] /\ p - low[owner[p]] = q - low[owner[q]]
    BY <1>6
  <2>2. QED
    BY <1>4, <2>1
<1>7. place \in Injection(getTakenPorts, Places)
  BY <1>5, <1>6 DEF Injection, IsInjective
<1>8. IsFiniteSet(DOMAIN Domains)
  BY PortsAssumption, FS_Subset DEF TypeOK
<1>9. /\ IsFiniteSet(0 .. Config.ppd - 1)
      /\ Cardinality(0 .. Config.ppd - 1) = Config.ppd
  BY <1>1, FS_Interval
<1>10. IsFiniteSet(Places) /\ Cardinality(Places) = domainCount * Config.ppd
  BY <1>8, <1>9, FS_Product DEF domainCount
<1> HIDE DEF place, Places
<1>11. QED
  BY <1>7, <1>10, FS_Injection

\* What the validation asks for is at least the room for one more domain: the
\* digits in a row are never less than the sum.
LEMMA NeededBound ==
  ASSUME TypeOK
  PROVE  needed \in Nat /\ domainCount * Config.ppd + Config.ppd <= needed
<1>1. domainCount \in Nat /\ Config.ppd \in 1..10
  BY CountType DEF TypeOK, ConfigRecord
<1>2. PICK product : product = domainCount * Config.ppd
  OBVIOUS
<1>3. product \in Nat
  BY <1>1, <1>2
<1>4. product <= product * 10 /\ product <= product * 100
  BY <1>3
<1>5. needed = (IF Config.text THEN product * (IF Config.ppd < 10 THEN 10 ELSE 100)
                ELSE product) + Config.ppd
  BY <1>2 DEF needed
<1>6. QED
  BY <1>1, <1>2, <1>3, <1>4, <1>5

LEMMA RoomSuffices ==
  ASSUME TypeOK, Blocks, validDomain
  PROVE  freePortsFound
<1> DEFINE range == Config.min .. Config.max
           count == domainCount * Config.ppd
<1>1. /\ Config.ppd \in 1..10 /\ Config.min \in Int /\ Config.max \in Int
      /\ domainCount \in Nat
  BY CountType, PortsAssumption DEF TypeOK, ConfigRecord, Port
<1>2. count \in Nat
  BY <1>1
<1>3. /\ IsFiniteSet(getTakenPorts) /\ Cardinality(getTakenPorts) <= count
      /\ Cardinality(getTakenPorts) \in Nat
  BY TakenBound, FS_CardinalityType
<1>4. count + Config.ppd <= Config.max - Config.min
  BY <1>1, <1>2, NeededBound DEF validDomain
<1> HIDE DEF count
<1>5. IsFiniteSet(range) /\ Cardinality(range) = Config.max - Config.min + 1
  <2>1. ~(Config.min > Config.max)
    BY <1>1, <1>2, <1>4
  <2>2. QED
    BY <1>1, <2>1, FS_Interval
<1>6. /\ IsFiniteSet(range \cap getTakenPorts)
      /\ Cardinality(range \cap getTakenPorts) <= Cardinality(getTakenPorts)
      /\ Cardinality(range \cap getTakenPorts) \in Nat
  BY <1>3, FS_Intersection, FS_CardinalityType
<1>7. Cardinality(freeInRange)
        = Cardinality(range) - Cardinality(range \cap getTakenPorts)
  BY <1>5, FS_Difference DEF freeInRange
<1> HIDE DEF range
<1>8. QED
  BY <1>1, <1>2, <1>3, <1>4, <1>5, <1>6, <1>7 DEF freePortsFound

\* validations.Domain makes the search of the handler (form_methods.js:466)
\* superfluous: an admitted domain finds as many free ports as it gets, for
\* any number of domains and whatever ranges and numbers were set before.
THEOREM AdmittedServed == Spec => []AdmittedFindsPorts
<1>1. Init => TypeOK /\ Blocks
  BY BlocksInit, PortsAssumption DEF Init, TypeOK, ConfigRecord, Port
<1>2. TypeOK /\ Blocks /\ [Next]_vars => (TypeOK /\ Blocks)'
  <2> SUFFICES ASSUME TypeOK, Blocks, [Next]_vars
               PROVE  TypeOK' /\ Blocks'
    OBVIOUS
  <2>1. TypeOK'
    BY NextType
  <2>2. ASSUME NEW name \in DomainNames, RemoveDomain(name)
        PROVE  Blocks'
    BY <2>2 DEF RemoveDomain, Blocks, Block, TakenBy
  <2>3. CASE vars' = vars
    BY <2>1, <2>3 DEF vars, Blocks, Block, TakenBy
  <2>4. QED
    BY <2>1, <2>2, <2>3, BlocksApply, BlocksAdd DEF Next
<1>3. TypeOK /\ Blocks => AdmittedFindsPorts
  BY RoomSuffices DEF AdmittedFindsPorts
<1>4. QED
  BY <1>1, <1>2, <1>3, PTL DEF Spec

=============================================================================
