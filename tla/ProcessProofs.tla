---------------------------- MODULE ProcessProofs ----------------------------
(***************************************************************************)
(* Nobody is orphaned, for every number of processes.  Parents are older   *)
(* than their children, so that every chain of parents ends at init, and   *)
(* what exit() calls the reaper is init.  While no process is killed by    *)
(* Ctrl-C, a process executes its own exit() only, and as long as nobody   *)
(* meets the change of another in a vector, the lists of children, as they *)
(* are once a change under way is done, together hold each process that    *)
(* was not reaped exactly once, but for those that a loop in exit() has    *)
(* handed over and not cleared.                                            *)
(***************************************************************************)
EXTENDS Process, WellFoundedInduction, TLAPS

(* A process that is or was there, and one that is not init.               *)
Born(p) == m_state[p] # "None"
Kin(q) == q # InitPid /\ Born(q)

Distinct(s) == \A i, j \in 1 .. Len(s) : s[i] = s[j] => i = j

(* The types, one variable at a time.                                      *)
ExecType == [at : {"no", "adopt", "zombie", "kill", "halt"}, pid : Pids \cup {NoProcess},
             todo : Seq(Pids)]
TreeOK ==
    /\ m_state \in [Pids -> {"None", "Running", "Zombie"}]
    /\ m_parent \in [Pids -> Pids \cup {NoProcess}]
    /\ m_children \in [Pids -> Seq(Pids)]
SignalsOK ==
    /\ handler \in [Pids -> {"SIG_DFL", "SIG_IGN", "function"}]
    /\ pending \in [Pids -> BOOLEAN] /\ presses \in 0 .. CtrlC
CallsOK ==
    /\ pc \in [Pids -> {"new", "user", "link", "start", "console", "wait", "erase", "exit",
                        "yield"}]
    /\ arg \in [Pids -> Pids \cup {NoProcess, AnyChild}]
ExecOK == exec \in [Executors -> ExecType]
ChangeOK == change \in [Executors -> Changes]
RestOK ==
    /\ status \in [Pids -> {"none", "code", "signal"}]
    /\ controlling \in Pids \cup {NoProcess}
    /\ terminated \subseteq Pids /\ stopped \subseteq Pids
    /\ reaped \in [Pids -> Nat]
Typed == TreeOK /\ SignalsOK /\ CallsOK /\ ExecOK /\ ChangeOK /\ RestOK

(* Processes are created in the order of their numbers, each by an older   *)
(* one, and only init has no parent.                                       *)
OldFirst ==
    /\ m_state[InitPid] = "Running" /\ m_parent[InitPid] = NoProcess
    /\ \A p, q \in Pids : p < q /\ Born(q) => Born(p)
    /\ \A q \in Pids : ~Born(q) => m_parent[q] = NoProcess /\ reaped[q] = 0
    /\ \A q \in Pids : Kin(q) => m_parent[q] \in Pids /\ m_parent[q] < q

(* Only processes that exist are listed, called, in an exit() or in        *)
(* control of the console.                                                 *)
ListsBorn == \A p, q \in Pids : Lists(m_children[p], q) => Kin(q)
CallsBorn ==
    /\ controlling # NoProcess => Born(controlling)
    /\ \A p \in Pids : pc[p] # "new" => Born(p)
    /\ \A p \in Pids : pc[p] \in {"link", "start", "console"} => arg[p] \in Pids /\ Born(arg[p])
ExitsBorn ==
    \A x \in Executors :
        /\ exec[x].at # "no" =>
              exec[x].pid \in Pids /\ Born(exec[x].pid) /\ x \in {Keyboard, exec[x].pid}
        /\ exec[x].at \in {"adopt", "zombie", "kill"} => exec[x].pid # InitPid
        /\ exec[x].at = "kill" => m_state[exec[x].pid] = "Zombie"
        /\ \A q \in Pids : Lists(exec[x].todo, q) => Kin(q)

(* A change is one of init's vector that adopt() makes, or one of the own  *)
(* vector.                                                                 *)
IsChange(c, x) ==
    /\ c.op # "none" /\ c.of \in Pids /\ c.child \in Pids
    /\ IF c.op = "resize" THEN c.of = InitPid ELSE c.of = x
ChangesBorn ==
    \A x \in Executors : change[x] # NoChange => IsChange(change[x], x) /\ Kin(change[x].child)

(* A thread that is marked Terminated belongs to init or to a zombie.      *)
DeadWaitable ==
    /\ stopped \subseteq terminated
    /\ \A p \in terminated : p = InitPid \/ m_state[p] = "Zombie"

TreeInv ==
    /\ Typed /\ OldFirst /\ ListsBorn /\ CallsBorn /\ ExitsBorn /\ ChangesBorn
    /\ DeadWaitable

----------------------------------------------------------------------------
(* Until Ctrl-C is pressed: a process executes exit() for itself, and a    *)
(* zombie executes nothing else and has no children.                       *)
OwnExit ==
    /\ exec[Keyboard].at = "no"
    /\ \A p \in Pids : exec[p].at # "no" => pc[p] = "exit" /\ exec[p].pid = p
    /\ \A p \in Pids : m_state[p] = "Zombie" => pc[p] \in {"exit", "yield"} /\ Listing(p) = <<>>
    /\ \A p \in Pids : exec[p].at \in {"zombie", "kill"} => Listing(p) = <<>>

(* A change is made in the middle of fork(), waitpid() or adopt(), alone,  *)
(* and of the vector as it was at its beginning.                           *)
OwnChange ==
    /\ Apart
    /\ \A x \in Executors :
          /\ change[x].op = "append" => pc[x] = "link"
          /\ change[x].op = "erase" => pc[x] = "erase" /\ change[x].at \in 1 .. Len(m_children[x])
          /\ change[x].op = "resize" =>
                exec[x].at = "adopt" /\ change[x].at = Len(m_children[InitPid]) + 1

(* The child that fork() is about to start is new and its own.             *)
NewChild ==
    \A p \in Pids : pc[p] \in {"link", "start"} => pc[arg[p]] = "new" /\ m_parent[arg[p]] = p

(* q is p's to wait for.                                                   *)
Held(q, p) == m_parent[q] = p /\ Unreaped(q)

(* A list holds what is its owner's and nothing twice; during exit() the   *)
(* children that are still to be handed over are the owner's.              *)
ListsHeld ==
    /\ \A p \in Pids : Distinct(Listing(p)) /\ Distinct(exec[p].todo)
    /\ \A p, q \in Pids : exec[p].at # "adopt" /\ Lists(Listing(p), q) => Held(q, p)
    /\ \A p, q \in Pids : exec[p].at = "adopt" /\ Lists(exec[p].todo, q) => Held(q, p)

(* A process that was not reaped is listed by its parent, and one whose    *)
(* parent is in exit() is still to be handed over.                         *)
HeldListed ==
    \A q \in Pids : q # InitPid /\ Unreaped(q) =>
        /\ Lists(Listing(m_parent[q]), q)
        /\ exec[m_parent[q]].at = "adopt" => Lists(exec[m_parent[q]].todo, q)

Family == OwnExit /\ OwnChange /\ NewChild /\ ListsHeld /\ HeldListed

FamilyInv == TreeInv /\ serial \in BOOLEAN /\ (serial /\ presses = 0 => Family)

----------------------------------------------------------------------------
(* Init is a process number, and process numbers are numbers.              *)
LEMMA PidFacts ==
    /\ InitPid \in Pids /\ Pids \subseteq Nat \ {0} /\ NoProcess \notin Pids
    /\ AnyChild \notin Pids
    /\ Keyboard \in Executors /\ Keyboard \notin Pids /\ Pids \subseteq Executors
BY ProcessAssumption DEF InitPid, Pids, NoProcess, AnyChild, Keyboard, Executors

(* What is in a list of processes is a process.                            *)
LEMMA ListedPid ==
    ASSUME NEW s \in Seq(Pids), NEW q, Lists(s, q)
    PROVE  q \in Pids
BY DEF Lists

(* The empty list.                                                         *)
LEMMA EmptyList == Distinct(<<>>) /\ <<>> \in Seq(Pids) /\ \A q : ~Lists(<<>>, q)
BY DEF Lists, Distinct

(* A list with one more process behind the last.                           *)
LEMMA LongerList ==
    ASSUME NEW s \in Seq(Pids), NEW e \in Pids, NEW z \in Seq(Pids), Len(z) = Len(s) + 1,
           z[Len(s) + 1] = e, \A i \in 1 .. Len(s) : z[i] = s[i]
    PROVE  /\ \A q : Lists(z, q) <=> Lists(s, q) \/ q = e
           /\ Distinct(s) /\ ~Lists(s, e) => Distinct(z)
<1>1. Len(s) \in Nat
  OBVIOUS
<1>3. ASSUME NEW q PROVE Lists(z, q) <=> Lists(s, q) \/ q = e
  BY <1>1 DEF Lists
<1>4. ASSUME Distinct(s), ~Lists(s, e) PROVE Distinct(z)
  <2> SUFFICES ASSUME NEW i \in 1 .. Len(s) + 1, NEW j \in 1 .. Len(s) + 1, z[i] = z[j]
               PROVE  i = j
    BY <1>1 DEF Distinct
  <2> QED BY <1>1, <1>4 DEF Distinct, Lists
<1> QED BY Zenon, <1>3, <1>4

(* push_back() of a process.                                               *)
LEMMA AppendList ==
    ASSUME NEW s \in Seq(Pids), NEW e \in Pids
    PROVE  /\ Append(s, e) \in Seq(Pids)
           /\ \A q : Lists(Append(s, e), q) <=> Lists(s, q) \/ q = e
           /\ Distinct(s) /\ ~Lists(s, e) => Distinct(Append(s, e))
<1>1. Append(s, e) \in Seq(Pids) /\ Len(Append(s, e)) = Len(s) + 1
  OBVIOUS
<1>2. Append(s, e)[Len(s) + 1] = e /\ \A i \in 1 .. Len(s) : Append(s, e)[i] = s[i]
  OBVIOUS
<1> QED BY Zenon, <1>1, <1>2, LongerList

(* resize() of a vector to one more does the same.                         *)
LEMMA ResizeList ==
    ASSUME NEW s \in Seq(Pids), NEW e \in Pids, NEW n, n = Len(s) + 1
    PROVE  /\ resize(s, n, e) \in Seq(Pids)
           /\ \A q : Lists(resize(s, n, e), q) <=> Lists(s, q) \/ q = e
           /\ Distinct(s) /\ ~Lists(s, e) => Distinct(resize(s, n, e))
<1>1. Len(s) \in Nat
  OBVIOUS
<1>2. resize(s, n, e) \in Seq(Pids) /\ Len(resize(s, n, e)) = Len(s) + 1
  BY <1>1 DEF resize
<1>3. /\ resize(s, n, e)[Len(s) + 1] = e
      /\ \A i \in 1 .. Len(s) : resize(s, n, e)[i] = s[i]
  BY <1>1 DEF resize
<1> QED BY Zenon, <1>2, <1>3, LongerList

(* The loop over the children takes the first one off what is to do.       *)
LEMMA TailList ==
    ASSUME NEW s \in Seq(Pids), s # <<>>
    PROVE  /\ Head(s) \in Pids /\ Tail(s) \in Seq(Pids)
           /\ \A q : Lists(s, q) <=> Lists(Tail(s), q) \/ q = Head(s)
           /\ Distinct(s) => Distinct(Tail(s)) /\ ~Lists(Tail(s), Head(s))
<1>1. Len(s) \in Nat \ {0} /\ Head(s) = s[1] /\ s[1] \in Pids
  OBVIOUS
<1>2. Tail(s) \in Seq(Pids) /\ Len(Tail(s)) = Len(s) - 1
  OBVIOUS
<1>3. \A i \in 1 .. Len(s) - 1 : Tail(s)[i] = s[i + 1]
  OBVIOUS
<1>4. ASSUME NEW q PROVE Lists(s, q) <=> Lists(Tail(s), q) \/ q = Head(s)
  <2>1. ASSUME NEW i \in 1 .. Len(s), s[i] = q, q # Head(s) PROVE Lists(Tail(s), q)
    <3>1. i - 1 \in 1 .. Len(Tail(s)) /\ Tail(s)[i - 1] = q
      BY <1>1, <1>2, <1>3, <2>1
    <3> QED BY <3>1 DEF Lists
  <2>2. ASSUME NEW i \in 1 .. Len(Tail(s)), Tail(s)[i] = q PROVE Lists(s, q)
    <3>1. i + 1 \in 1 .. Len(s) /\ s[i + 1] = q
      BY <1>1, <1>2, <1>3, <2>2
    <3> QED BY <3>1 DEF Lists
  <2>3. ASSUME q = Head(s) PROVE Lists(s, q)
    BY <1>1, <2>3 DEF Lists
  <2> QED BY Zenon, <2>1, <2>2, <2>3 DEF Lists
<1>5. ASSUME Distinct(s) PROVE Distinct(Tail(s)) /\ ~Lists(Tail(s), Head(s))
  BY <1>1, <1>2, <1>3, <1>5 DEF Distinct, Lists
<1> QED BY Zenon, <1>1, <1>2, <1>4, <1>5

(* erase() of the child that waitpid() found.                              *)
LEMMA RemoveList ==
    ASSUME NEW s \in Seq(Pids), NEW i \in 1 .. Len(s)
    PROVE  /\ erase(s, i) \in Seq(Pids)
           /\ \A q : Lists(erase(s, i), q) => Lists(s, q)
           /\ \A q : Lists(s, q) /\ q # s[i] => Lists(erase(s, i), q)
           /\ Distinct(s) => Distinct(erase(s, i)) /\ ~Lists(erase(s, i), s[i])
<1> DEFINE r == erase(s, i)
<1>1. Len(s) \in Nat /\ i - 1 \in Nat /\ i - 1 <= Len(s) /\ i + 1 <= Len(s) + 1
  OBVIOUS
<1>5. r \in Seq(Pids) /\ Len(r) = Len(s) - 1
  BY <1>1 DEF erase
<1>6. \A k \in 1 .. Len(s) - 1 : r[k] = IF k < i THEN s[k] ELSE s[k + 1]
  BY <1>1 DEF erase
<1> HIDE DEF r
<1>7. ASSUME NEW q, Lists(r, q) PROVE Lists(s, q)
  <2>1. PICK k \in 1 .. Len(r) : r[k] = q
    BY <1>7 DEF Lists
  <2>2. k \in 1 .. Len(s) /\ k + 1 \in 1 .. Len(s) /\ (s[k] = q \/ s[k + 1] = q)
    BY <1>1, <1>5, <1>6, <2>1
  <2> QED BY <2>2 DEF Lists
<1>8. ASSUME NEW q, Lists(s, q), q # s[i] PROVE Lists(r, q)
  <2>1. PICK k \in 1 .. Len(s) : s[k] = q
    BY <1>8 DEF Lists
  <2>2. CASE k < i
    <3>1. k \in 1 .. Len(r) /\ r[k] = q
      BY <1>1, <1>5, <1>6, <2>1, <2>2
    <3> QED BY <3>1 DEF Lists
  <2>3. CASE k > i
    <3>1. k - 1 \in 1 .. Len(r) /\ r[k - 1] = q
      BY <1>1, <1>5, <1>6, <2>1, <2>3
    <3> QED BY <3>1 DEF Lists
  <2> QED BY <1>8, <2>1, <2>2, <2>3
<1>9. ASSUME Distinct(s) PROVE Distinct(r) /\ ~Lists(r, s[i])
  <2>1. Distinct(r)
    <3> SUFFICES ASSUME NEW k \in 1 .. Len(s) - 1, NEW l \in 1 .. Len(s) - 1, r[k] = r[l]
                 PROVE  k = l
      BY <1>1, <1>5 DEF Distinct
    <3> DEFINE at(m) == IF m < i THEN m ELSE m + 1
    <3>1. at(k) \in 1 .. Len(s) /\ at(l) \in 1 .. Len(s) /\ s[at(k)] = s[at(l)]
      BY <1>1, <1>6
    <3>2. at(k) = at(l)
      BY Zenon, <3>1, <1>9 DEF Distinct
    <3> QED BY <3>2, <1>1
  <2>2. ~Lists(r, s[i])
    BY <1>1, <1>5, <1>6, <1>9 DEF Distinct, Lists
  <2> QED BY <2>1, <2>2
<1> QED BY Zenon, <1>5, <1>7, <1>8, <1>9 DEF r

(* A change gives a list of processes, those that were listed and perhaps  *)
(* the one the change is about.                                            *)
LEMMA AfterList ==
    ASSUME NEW s \in Seq(Pids), NEW c \in Changes, c.child \in Pids
    PROVE  /\ After(c, s) \in Seq(Pids)
           /\ \A q : Lists(After(c, s), q) => Lists(s, q) \/ q = c.child
<1>0. Len(s) \in Nat /\ \A i \in 1 .. Len(s) : s[i] \in Pids
  OBVIOUS
<1>1. /\ Append(s, c.child) \in Seq(Pids)
      /\ \A q : Lists(Append(s, c.child), q) => Lists(s, q) \/ q = c.child
  BY Zenon, AppendList
<1>2. ASSUME NEW n \in Nat, NEW e \in Pids
      PROVE  /\ resize(s, n, e) \in Seq(Pids)
             /\ \A q : Lists(resize(s, n, e), q) => Lists(s, q) \/ q = e
  <2> DEFINE z == resize(s, n, e)
  <2>1. \A i \in 1 .. n : z[i] = IF i <= Len(s) THEN s[i] ELSE e
    BY DEF resize
  <2>2. z \in Seq(Pids) /\ Len(z) = n
    BY <1>0 DEF resize
  <2> HIDE DEF z
  <2>3. ASSUME NEW q, Lists(z, q) PROVE Lists(s, q) \/ q = e
    <3>1. PICK i \in 1 .. n : z[i] = q
      BY <2>2, <2>3 DEF Lists
    <3> QED BY <1>0, <2>1, <3>1 DEF Lists
  <2> QED BY Zenon, <2>2, <2>3 DEF z
<1>3. ASSUME NEW n \in Nat
      PROVE  erase(s, n) \in Seq(Pids) /\ \A q : Lists(erase(s, n), q) => Lists(s, q)
  <2> DEFINE z == erase(s, n)
             m == IF Len(s) = 0 THEN 0 ELSE Len(s) - 1
  <2>1. \A i \in 1 .. m : z[i] = IF i < n THEN s[i] ELSE s[i + 1]
    BY <1>0 DEF erase
  <2>20. m \in Nat /\ 1 .. Len(s) - 1 = 1 .. m
    BY <1>0
  <2>2. z \in Seq(Pids) /\ Len(z) = m
    <3>1. z \in [1 .. m -> Pids]
      BY <1>0, <2>20 DEF erase
    <3> HIDE DEF z, m
    <3> QED BY <2>20, <3>1
  <2> HIDE DEF z
  <2>3. ASSUME NEW q, Lists(z, q) PROVE Lists(s, q)
    <3>1. PICK i \in 1 .. m : z[i] = q
      BY <2>2, <2>3 DEF Lists
    <3>2. i \in 1 .. Len(s) /\ i + 1 \in 1 .. Len(s)
      BY <1>0, <3>1
    <3> QED BY <2>1, <3>1, <3>2 DEF Lists
  <2> QED BY Zenon, <2>2, <2>3 DEF z
<1>4. c.at \in Nat /\ c.op \in {"none", "append", "resize", "erase"}
  BY Zenon DEF Changes
<1>5. CASE c.op = "append"
  BY <1>1, <1>5 DEF After
<1>6. CASE c.op = "resize"
  BY <1>2, <1>4, <1>6 DEF After
<1>7. CASE c.op = "erase"
  BY <1>3, <1>4, <1>7 DEF After
<1>8. CASE c.op = "none"
  BY <1>8 DEF After
<1> QED BY Zenon, <1>4, <1>5, <1>6, <1>7, <1>8

----------------------------------------------------------------------------
(* Of the processes with some property one is the oldest.                  *)
LEMMA Oldest ==
    ASSUME NEW S \in SUBSET Pids, S # {}
    PROVE  \E m \in S : \A q \in S : ~(q < m)
<1>1. IsWellFoundedOn(OpToRel(<, Nat), Nat)
  BY Zenon, NatLessThanWellFounded
<1>2. S \subseteq Nat /\ \E q \in S : q \in Nat
  BY Zenon, PidFacts
<1>3. PICK m \in S : \A q \in S : ~(<<q, m>> \in OpToRel(<, Nat))
  BY Zenon, <1>1, <1>2, WFMin
<1>4. ASSUME NEW q \in S, q < m PROVE FALSE
  <2>1. <<q, m>> \in OpToRel(<, Nat)
    BY Zenon, <1>2, <1>4 DEF OpToRel
  <2> QED BY Zenon, <1>3, <2>1
<1> QED BY Zenon, <1>4

(* The parent of a process that is not init was there before it.           *)
LEMMA ParentBorn ==
    ASSUME TreeInv, NEW q \in Pids, Kin(q)
    PROVE  m_parent[q] \in Pids /\ m_parent[q] < q /\ Born(m_parent[q])
BY Zenon DEF TreeInv, OldFirst, Kin

(* The loop of exit() over the parents ends at init.                       *)
LEMMA ReaperInit ==
    ASSUME TreeInv, NEW p \in Pids, Born(p)
    PROVE  Reaper(p) = InitPid
<1> DEFINE Body(g) == [q \in Pids |-> IF m_parent[q] = NoProcess THEN q ELSE g[m_parent[q]]]
           f == [q \in Pids |-> IF m_parent[q] = NoProcess THEN q ELSE InitPid]
           up == CHOOSE g : g = Body(g)
<1>1. ASSUME NEW q \in Pids, m_parent[q] # NoProcess PROVE f[m_parent[q]] = InitPid
  <2>1. Kin(q)
    BY Zenon, <1>1 DEF TreeInv, OldFirst, Kin
  <2>2. m_parent[q] \in Pids /\ Born(m_parent[q])
    BY Zenon, <2>1, ParentBorn
  <2>3. m_parent[m_parent[q]] = NoProcess => m_parent[q] = InitPid
    BY Zenon, <2>2, PidFacts DEF TreeInv, OldFirst, Kin
  <2> QED BY Zenon, <2>2, <2>3
<1>2. f = Body(f)
  BY <1>1
<1>3. up = Body(up)
  BY Zenon, <1>2
<1> HIDE DEF up, f
<1>4. \A q \in Pids : up[q] = IF m_parent[q] = NoProcess THEN q ELSE up[m_parent[q]]
  BY Zenon, <1>3
<1> HIDE DEF Body
<1> DEFINE S == {q \in Pids : Born(q) /\ up[q] # InitPid}
<1>5. ASSUME S # {} PROVE FALSE
  <2>1. PICK m \in S : \A q \in S : ~(q < m)
    BY Zenon, <1>5, Oldest
  <2>2. m # InitPid
    BY Zenon, <1>4, PidFacts, <2>1 DEF TreeInv, OldFirst
  <2>3. m_parent[m] \in Pids /\ m_parent[m] < m /\ Born(m_parent[m])
    BY Zenon, <2>1, <2>2, ParentBorn DEF Kin
  <2>4. up[m_parent[m]] = InitPid
    BY Zenon, <2>1, <2>3
  <2> QED BY Zenon, <1>4, <2>1, <2>3, <2>4, PidFacts
<1>6. up[p] = InitPid
  BY Zenon, <1>5
<1> QED BY <1>6 DEF Reaper, up, Body

(* Every chain of parents ends at init.                                    *)
LEMMA ChainsEnd == TreeInv => ReaperIsInit
<1> SUFFICES ASSUME TreeInv PROVE ReaperIsInit
  OBVIOUS
<1> DEFINE Chain(p, n, c) == /\ c[1] = p /\ c[n] = InitPid
                             /\ \A i \in 1 .. n - 1 : m_parent[c[i]] = c[i + 1]
           Ends(p) == \E n \in 1 .. p : \E c \in [1 .. n -> Pids] : Chain(p, n, c)
           S == {p \in Pids : Born(p) /\ ~Ends(p)}
<1>1. ASSUME S # {} PROVE FALSE
  <2>1. PICK m \in S : \A q \in S : ~(q < m)
    BY Zenon, <1>1, Oldest
  <2>2. m # InitPid
    <3>1. [i \in 1 .. 1 |-> InitPid] \in [1 .. 1 -> Pids]
      BY Zenon, PidFacts
    <3>2. Chain(InitPid, 1, [i \in 1 .. 1 |-> InitPid])
      OBVIOUS
    <3>3. 1 \in 1 .. InitPid
      BY DEF InitPid
    <3> HIDE DEF Chain
    <3>4. Ends(InitPid)
      BY Zenon, <3>1, <3>2, <3>3
    <3> QED BY Zenon, <2>1, <3>4
  <2> DEFINE q == m_parent[m]
  <2>3. q \in Pids /\ q < m /\ Born(q)
    BY Zenon, <2>1, <2>2, ParentBorn DEF Kin
  <2>4. Ends(q)
    BY Zenon, <2>1, <2>3
  <2>50. PICK n \in 1 .. q : \E c \in [1 .. n -> Pids] : Chain(q, n, c)
    BY Zenon, <2>4
  <2>5. PICK c \in [1 .. n -> Pids] : Chain(q, n, c)
    BY Zenon, <2>50
  <2> DEFINE d == [i \in 1 .. n + 1 |-> IF i = 1 THEN m ELSE c[i - 1]]
  <2>6. m \in Nat /\ q \in Nat /\ n \in Nat /\ n + 1 \in 1 .. m /\ n # 0
    <3>1. m \in Nat /\ q \in Nat
      BY Zenon, <2>1, <2>3, PidFacts
    <3> HIDE DEF q
    <3> QED BY <2>3, <3>1
  <2>7. d \in [1 .. n + 1 -> Pids]
    BY <2>1, <2>6
  <2>8. d[1] = m /\ d[n + 1] = InitPid
    BY <2>5, <2>6
  <2>9. ASSUME NEW i \in 1 .. n PROVE m_parent[d[i]] = d[i + 1]
    <3>1. CASE i = 1
      BY <2>5, <2>6, <3>1
    <3>2. CASE i # 1
      <4>1. i - 1 \in 1 .. n - 1 /\ d[i] = c[i - 1] /\ d[i + 1] = c[i]
        BY <2>6, <3>2
      <4>2. m_parent[c[i - 1]] = c[(i - 1) + 1] /\ (i - 1) + 1 = i
        BY <2>5, <2>6, <4>1
      <4> QED BY Zenon, <4>1, <4>2
    <3> QED BY Zenon, <3>1, <3>2
  <2>10. Chain(m, n + 1, d)
    <3>1. (n + 1) - 1 = n
      BY <2>6
    <3> HIDE DEF d
    <3> QED BY Zenon, <2>8, <2>9, <3>1
  <2> HIDE DEF Chain, d
  <2> QED BY Zenon, <2>1, <2>6, <2>7, <2>10
<1>2. ASSUME NEW p \in Pids, Born(p) PROVE \E n \in Pids : \E c \in [1 .. n -> Pids] : Chain(p, n, c)
  <2>1. Ends(p)
    <3> HIDE DEF Ends
    <3> QED BY Zenon, <1>1, <1>2
  <2>2. 1 .. p \subseteq Pids
    BY ProcessAssumption DEF Pids
  <2> QED BY Zenon, <2>1, <2>2
<1> QED BY Zenon, <1>2 DEF ReaperIsInit, TreeInv, OldFirst, Born

----------------------------------------------------------------------------
(* Init satisfies the first half of the invariant.                         *)
LEMMA TreeInit == Init => TreeInv
<1> SUFFICES ASSUME Init PROVE TreeInv
  OBVIOUS
<1> USE PidFacts DEF Init
<1>1. TreeOK
  BY Zenon, EmptyList DEF TreeOK
<1>2. SignalsOK /\ CallsOK
  BY ProcessAssumption DEF SignalsOK, CallsOK
<1>3. NoExit \in ExecType
  BY Zenon, EmptyList DEF NoExit, ExecType
<1>4. ExecOK
  BY Zenon, <1>3 DEF ExecOK
<1>5. RestOK
  BY DEF RestOK
<1>6. OldFirst
  <2>1. \A q \in Pids : Born(q) <=> q = InitPid
    BY Zenon DEF Born
  <2>2. \A p \in Pids : ~(p < InitPid)
    BY DEF InitPid
  <2> QED BY Zenon, <2>1, <2>2 DEF OldFirst, Kin
<1>7. ListsBorn
  BY Zenon, EmptyList DEF ListsBorn
<1>8. CallsBorn
  BY Zenon DEF CallsBorn, Born
<1>9. ExitsBorn
  BY Zenon, EmptyList DEF ExitsBorn, NoExit
<1>10. DeadWaitable
  BY Zenon DEF DeadWaitable
<1>11. NoChange \in Changes
  BY DEF NoChange, Changes
<1>12. ChangeOK /\ ChangesBorn
  BY Zenon, <1>11 DEF ChangeOK, ChangesBorn
<1> QED
  BY Zenon, <1>1, <1>2, <1>4, <1>5, <1>6, <1>7, <1>8, <1>9, <1>10, <1>12 DEF TreeInv, Typed

(* A step that leaves the tree alone keeps what the tree promises.         *)
LEMMA TreeKept ==
    ASSUME TreeInv, UNCHANGED <<m_state, m_parent, m_children, reaped>>
    PROVE  /\ TreeOK' /\ OldFirst' /\ ListsBorn'
           /\ \A p : Born(p)' <=> Born(p)
           /\ \A p : Kin(p)' <=> Kin(p)
BY Zenon DEF TreeInv, Typed, TreeOK, OldFirst, ListsBorn, Born, Kin

(* A step that leaves the exits alone.                                     *)
LEMMA ExitsKept ==
    ASSUME TreeInv, UNCHANGED <<m_state, exec>>
    PROVE  ExecOK' /\ ExitsBorn'
BY Zenon DEF TreeInv, Typed, ExecOK, ExitsBorn, Born, Kin

(* A step that leaves the changes alone.                                   *)
LEMMA ChangesKept ==
    ASSUME TreeInv, change' = change, \A q \in Pids : Kin(q) => Kin(q)'
    PROVE  ChangeOK' /\ ChangesBorn'
<1>1. ChangeOK'
  BY Zenon DEF TreeInv, Typed, ChangeOK
<1>2. \A x \in Executors : change[x] # NoChange => change[x].child \in Pids /\ Kin(change[x].child)
  BY Zenon DEF TreeInv, ChangesBorn, IsChange
<1>3. \A x \in Executors : change[x] # NoChange => Kin(change[x].child)'
  BY Zenon, <1>2 DEF Kin, Born
<1> QED BY Zenon, <1>1, <1>3 DEF TreeInv, ChangesBorn

(* A change begins.                                                        *)
LEMMA ChangeMade ==
    ASSUME TreeInv, NEW x \in Executors, NEW c \in Changes, change' = [change EXCEPT ![x] = c],
           IsChange(c, x), \A q \in Pids : Kin(q) \/ q = c.child => Kin(q)'
    PROVE  /\ ChangeOK' /\ ChangesBorn' /\ change'[x] = c
           /\ \A y \in Executors \ {x} : change'[y] = change[y]
<1>1. /\ ChangeOK' /\ change'[x] = c
      /\ \A y \in Executors \ {x} : change'[y] = change[y]
  BY Zenon DEF TreeInv, Typed, ChangeOK
<1>2. \A y \in Executors : change[y] # NoChange => change[y].child \in Pids /\ Kin(change[y].child)
  BY Zenon DEF TreeInv, ChangesBorn, IsChange
<1>3. ASSUME NEW y \in Executors, change'[y] # NoChange
      PROVE  IsChange(change'[y], y) /\ Kin(change[y].child)'
  <2>1. CASE y = x
    <3>1. c.child \in Pids
      BY Zenon DEF IsChange
    <3> QED BY Zenon, <1>1, <2>1, <3>1 DEF Kin, Born
  <2>2. CASE y # x
    <3>1. change'[y] = change[y]
      BY Zenon, <1>1, <2>2
    <3> QED BY Zenon, <1>2, <1>3, <3>1 DEF TreeInv, ChangesBorn, Kin, Born
  <2> QED BY Zenon, <2>1, <2>2
<1> QED BY Zenon, <1>1, <1>3 DEF ChangesBorn

(* push_back() begins.                                                     *)
LEMMA PushFacts ==
    ASSUME TreeInv, NEW x \in Executors, NEW p \in Pids, NEW q \in Pids,
           NEW how \in {"append", "resize"}, PushBegin(x, p, q, how)
    PROVE  \E c \in Changes : /\ change' = [change EXCEPT ![x] = c]
                              /\ c.op = how /\ c.of = p /\ c.child = q
                              /\ c.at = Len(m_children[p]) + 1
<1>1. PICK g \in BOOLEAN :
        change' = [change EXCEPT ![x] = [op |-> how, of |-> p, at |-> Len(m_children[p]) + 1,
                                         child |-> q, grows |-> g]]
  BY Zenon DEF PushBegin
<1>2. Len(m_children[p]) + 1 \in Nat
  BY DEF TreeInv, Typed, TreeOK
<1> DEFINE c == [op |-> how, of |-> p, at |-> Len(m_children[p]) + 1, child |-> q, grows |-> g]
<1>3. c \in Changes
  BY <1>2 DEF Changes
<1>4. c.op = how /\ c.of = p /\ c.child = q /\ c.at = Len(m_children[p]) + 1
  OBVIOUS
<1> HIDE DEF c
<1>5. change' = [change EXCEPT ![x] = c]
  BY Zenon, <1>1 DEF c
<1> QED BY Zenon, <1>3, <1>4, <1>5

(* A change ends: its child is listed, if anything is.                     *)
LEMMA ChangeDone ==
    ASSUME TreeInv, NEW x \in Executors, ChangeEnd(x), UNCHANGED <<m_state, m_parent, reaped>>
    PROVE  /\ TreeOK' /\ OldFirst' /\ ListsBorn' /\ ChangeOK' /\ ChangesBorn'
           /\ change'[x] = NoChange /\ \A y \in Executors \ {x} : change'[y] = change[y]
           /\ \A p : Born(p)' <=> Born(p)
<1> USE DEF TreeInv
<1> DEFINE c == change[x]
<1>1. /\ m_children' = [m_children EXCEPT ![c.of] = After(c, @)]
      /\ change' = [change EXCEPT ![x] = NoChange]
  BY Zenon DEF ChangeEnd
<1>2. c \in Changes /\ NoChange \in Changes
  BY DEF Typed, ChangeOK, NoChange, Changes
<1>3. /\ ChangeOK' /\ change'[x] = NoChange
      /\ \A y \in Executors \ {x} : change'[y] = change[y]
  BY Zenon, <1>1, <1>2 DEF Typed, ChangeOK
<1>4. /\ \A r : Born(r)' <=> Born(r)
      /\ \A r : Kin(r)' <=> Kin(r)
  BY Zenon DEF Born, Kin
<1>5. ChangesBorn'
  <2>1. ASSUME NEW y \in Executors, change'[y] # NoChange
        PROVE  IsChange(change'[y], y) /\ Kin(change[y].child)'
    <3>1. change'[y] = change[y]
      BY Zenon, <1>3, <2>1
    <3> QED BY Zenon, <2>1, <3>1 DEF ChangesBorn, Kin, Born
  <2> QED BY Zenon, <2>1 DEF ChangesBorn
<1> HIDE DEF c
<1>6. /\ m_children' \in [Pids -> Seq(Pids)]
      /\ \A r, s \in Pids : Lists(m_children'[r], s) => Kin(s)
  <2>1. CASE c.of \notin Pids
    <3>1. m_children' = m_children
      BY <1>1, <2>1 DEF Typed, TreeOK
    <3> QED BY Zenon, <3>1 DEF Typed, TreeOK, ListsBorn
  <2>2. CASE c.of \in Pids
    <3>1. c # NoChange
      BY <2>2, PidFacts DEF NoChange
    <3>2. c.child \in Pids /\ Kin(c.child)
      BY Zenon, <3>1 DEF c, ChangesBorn, IsChange
    <3>3. m_children[c.of] \in Seq(Pids)
      BY Zenon, <2>2 DEF Typed, TreeOK
    <3>4. /\ After(c, m_children[c.of]) \in Seq(Pids)
          /\ \A q : Lists(After(c, m_children[c.of]), q) => Lists(m_children[c.of], q) \/ q = c.child
      BY Zenon, <1>2, <3>2, <3>3, AfterList
    <3>5. /\ m_children' \in [Pids -> Seq(Pids)]
          /\ m_children'[c.of] = After(c, m_children[c.of])
          /\ \A r \in Pids : r # c.of => m_children'[r] = m_children[r]
      BY Zenon, <1>1, <2>2, <3>4 DEF Typed, TreeOK
    <3> QED BY Zenon, <2>2, <3>2, <3>4, <3>5 DEF ListsBorn
  <2> QED BY Zenon, <2>1, <2>2
<1>7. TreeOK' /\ ListsBorn'
  BY Zenon, <1>4, <1>6 DEF Typed, TreeOK, ListsBorn
<1>8. OldFirst'
  BY Zenon, <1>4 DEF OldFirst
<1> QED BY Zenon, <1>3, <1>4, <1>5, <1>7, <1>8

(* fork() keeps the tree.                                                  *)
LEMMA TreeFork ==
    ASSUME TreeInv, NEW p \in Pids, NEW q \in Pids, fork(p, q)
    PROVE  TreeInv'
<1> USE DEF TreeInv, fork
<1>1. /\ m_state' = [m_state EXCEPT ![q] = "Running"]
      /\ m_parent' = [m_parent EXCEPT ![q] = p]
      /\ m_children' = m_children /\ PushBegin(p, p, q, "append")
      /\ ~Born(q) /\ \A r \in Pids : r < q => Born(r)
      /\ pc' = [pc EXCEPT ![p] = "link"] /\ arg' = [arg EXCEPT ![p] = q]
      /\ UNCHANGED <<controlling, terminated, stopped, exec, reaped>>
  BY Zenon DEF GotoWith, Born, Stops
<1>2. Born(p) /\ p # q /\ q # InitPid
  BY Zenon, <1>1, PidFacts DEF Runs, CallsBorn, OldFirst, Born
<1>3. p < q
  <2>1. ~(q < p)
    BY Zenon, <1>1, <1>2 DEF OldFirst
  <2> QED BY <2>1, <1>2 DEF Pids
<1>5. TreeOK'
  BY <1>1 DEF Typed, TreeOK
<1>6. /\ \A r \in Pids : Born(r)' <=> Born(r) \/ r = q
      /\ \A r \in Pids : Kin(r)' <=> Kin(r) \/ r = q
      /\ \A r \in Pids : r # q => m_state'[r] = m_state[r] /\ m_parent'[r] = m_parent[r]
      /\ m_parent'[q] = p
  <2>1. m_state'[q] = "Running" /\ m_parent'[q] = p
    BY <1>1 DEF Typed, TreeOK
  <2>2. \A r \in Pids : r # q => m_state'[r] = m_state[r] /\ m_parent'[r] = m_parent[r]
    BY Zenon, <1>1 DEF Typed, TreeOK
  <2> QED BY Zenon, <1>2, <2>1, <2>2 DEF Born, Kin
<1>7. OldFirst'
  <2>1. \A r, s \in Pids : r < s /\ Born(s)' => Born(r)'
    <3>1. \A r, s \in Pids : r < s /\ (Born(s) \/ s = q) => Born(r)
      BY Zenon, <1>1 DEF OldFirst
    <3> QED BY Zenon, <1>6, <3>1
  <2>2. \A r \in Pids : ~Born(r)' => m_parent'[r] = NoProcess /\ reaped'[r] = 0
    BY Zenon, <1>1, <1>6 DEF OldFirst
  <2>3. \A r \in Pids : Kin(r)' => m_parent'[r] \in Pids /\ m_parent'[r] < r
    BY Zenon, <1>3, <1>6 DEF OldFirst
  <2>4. m_state'[InitPid] = "Running" /\ m_parent'[InitPid] = NoProcess
    BY Zenon, <1>2, <1>6, PidFacts DEF OldFirst
  <2> QED BY Zenon, <2>1, <2>2, <2>3, <2>4 DEF OldFirst
<1>8. ListsBorn'
  BY Zenon, <1>1, <1>6 DEF ListsBorn
<1>80. ChangeOK' /\ ChangesBorn'
  <2>1. PICK c \in Changes : /\ change' = [change EXCEPT ![p] = c]
                             /\ c.op = "append" /\ c.of = p /\ c.child = q
                             /\ c.at = Len(m_children[p]) + 1
    <3>1. "append" \in {"append", "resize"} /\ p \in Executors
      BY Zenon, PidFacts
    <3> HIDE DEF TreeInv, fork
    <3> QED BY <1>1, <3>1, PushFacts
  <2>2. IsChange(c, p)
    BY <2>1 DEF IsChange
  <2> QED BY Zenon, <1>6, <2>1, <2>2, PidFacts, ChangeMade
<1>9. SignalsOK' /\ CallsOK' /\ ExecOK' /\ RestOK'
  <2>1. SignalsOK'
    BY Zenon DEF Typed, SignalsOK
  <2>2. CallsOK'
    BY Zenon, <1>1 DEF Typed, CallsOK
  <2>3. ExecOK' /\ RestOK'
    BY Zenon DEF Typed, ExecOK, RestOK, Stops
  <2> QED BY Zenon, <2>1, <2>2, <2>3
<1>10. CallsBorn'
  <2>1. \A r \in Pids : pc'[r] # "new" => Born(r)'
    BY Zenon, <1>1, <1>2, <1>6 DEF CallsBorn, Typed, CallsOK
  <2>2. \A r \in Pids : pc'[r] \in {"link", "start", "console"} => arg'[r] \in Pids /\ Born(arg[r])'
    <3> TAKE r \in Pids
    <3>1. CASE r = p
      <4>1. arg'[p] = q
        BY Zenon, <1>1 DEF Typed, CallsOK
      <4> QED BY Zenon, <3>1, <4>1, <1>6
    <3>2. CASE r # p
      <4>1. arg'[r] = arg[r] /\ pc'[r] = pc[r]
        BY Zenon, <1>1, <3>2 DEF Typed, CallsOK
      <4> QED BY Zenon, <4>1, <1>6 DEF CallsBorn
    <3> QED BY Zenon, <3>1, <3>2
  <2>3. controlling' # NoProcess => Born(controlling)'
    BY Zenon, <1>1, <1>6 DEF CallsBorn, Typed, RestOK
  <2> QED BY Zenon, <2>1, <2>2, <2>3 DEF CallsBorn
<1>11. ExitsBorn'
  <2> SUFFICES ASSUME NEW x \in Executors
               PROVE  /\ exec[x].at # "no" => /\ exec[x].pid \in Pids /\ Born(exec[x].pid)'
                                                /\ x \in {Keyboard, exec[x].pid}
                      /\ exec[x].at \in {"adopt", "zombie", "kill"} => exec[x].pid # InitPid
                      /\ exec[x].at = "kill" => m_state'[exec[x].pid] = "Zombie"
                      /\ \A r \in Pids : Lists(exec[x].todo, r) => Kin(r)'
    BY Zenon, <1>1 DEF ExitsBorn, Born
  <2>1. exec[x].at = "kill" => exec[x].pid \in Pids /\ exec[x].pid # q
    BY Zenon, <1>1 DEF ExitsBorn, Born
  <2> QED BY Zenon, <1>6, <2>1 DEF ExitsBorn
<1>12. DeadWaitable'
  <2>1. \A r \in terminated : r \in Pids
    BY Zenon DEF Typed, RestOK
  <2>2. \A r \in terminated : r # q
    BY Zenon, <1>1, <1>2 DEF DeadWaitable, Born
  <2> QED BY Zenon, <1>1, <1>6, <2>1, <2>2 DEF DeadWaitable
<1> QED BY Zenon, <1>5, <1>7, <1>8, <1>80, <1>9, <1>10, <1>11, <1>12 DEF Typed

(* The other steps of a thread but exit() and waitpid() leave the tree.    *)
LEMMA TreeSyscall ==
    ASSUME TreeInv, NEW p \in Pids, NEW q \in Pids \cup {AnyChild},
           fork_start(p) \/ fork_console(p) \/ waitpid(p, q)
    PROVE  TreeInv'
<1> USE DEF TreeInv
<1>1. UNCHANGED <<m_state, m_parent, m_children, reaped, exec, terminated, stopped, status,
                  handler, pending, presses, change>>
  BY Zenon DEF fork_start, fork_console, waitpid, Tree, Signals, Stops
<1>2. /\ TreeOK' /\ OldFirst' /\ ListsBorn' /\ ExecOK' /\ ExitsBorn'
      /\ \A r : Born(r)' <=> Born(r)
  BY Zenon, <1>1, TreeKept, ExitsKept
<1>20. ChangeOK' /\ ChangesBorn'
  BY Zenon, <1>1, TreeKept, ChangesKept
<1>3. SignalsOK' /\ DeadWaitable'
  BY Zenon, <1>1 DEF Typed, SignalsOK, DeadWaitable
<1>4. Born(p) /\ (pc[p] \in {"link", "start", "console"} => arg[p] \in Pids /\ Born(arg[p]))
  BY Zenon DEF CallsBorn, fork_start, fork_console, waitpid, Runs
<1>5. CallsOK'
  <2>1. CASE fork_start(p)
    BY Zenon, <1>4, <2>1 DEF fork_start, Typed, CallsOK
  <2>2. CASE fork_console(p)
    BY Zenon, <2>2 DEF fork_console, GotoWith, Typed, CallsOK
  <2>3. CASE waitpid(p, q)
    BY Zenon, <2>3 DEF waitpid, GotoWith, Typed, CallsOK
  <2> QED BY Zenon, <2>1, <2>2, <2>3
<1>6. RestOK'
  <2>1. controlling' \in {controlling, arg[p]} /\ (controlling' = controlling \/ pc[p] = "console")
    BY Zenon DEF fork_start, fork_console, waitpid, Runs
  <2> QED BY Zenon, <1>1, <1>4, <2>1 DEF Typed, RestOK
<1>7. CallsBorn'
  <2>1. CASE fork_start(p)
    <3>1. arg' = arg /\ controlling' = controlling /\ pc[p] = "start"
          /\ \A r \in Pids : pc'[r] # pc[r] => r \in {p, arg[p]}
      BY Zenon, <2>1 DEF fork_start, Typed, CallsOK, Runs
    <3>2. \A r \in Pids : pc'[r] # "new" => Born(r)'
      BY Zenon, <3>1, <1>2, <1>4 DEF CallsBorn
    <3>3. \A r \in Pids : r # p /\ pc'[r] \in {"link", "start", "console"} => pc[r] = pc'[r]
      <4> SUFFICES ASSUME NEW r \in Pids, r # p, pc'[r] # pc[r] PROVE pc'[r] = "user"
        BY Zenon
      <4> QED BY Zenon, <3>1, <2>1 DEF fork_start, Typed, CallsOK
    <3> QED BY Zenon, <1>2, <1>4, <3>1, <3>2, <3>3 DEF CallsBorn
  <2>2. CASE fork_console(p)
    <3>1. \A r \in Pids \ {p} : pc'[r] = pc[r] /\ arg'[r] = arg[r]
      BY Zenon, <2>2 DEF fork_console, GotoWith, Typed, CallsOK
    <3>2. pc'[p] = "user" /\ pc[p] = "console"
      BY Zenon, <2>2 DEF fork_console, GotoWith, Typed, CallsOK, Runs
    <3>3. controlling' \in {controlling, arg[p]}
      BY Zenon, <2>2 DEF fork_console
    <3> QED BY Zenon, <1>2, <1>4, <3>1, <3>2, <3>3 DEF CallsBorn
  <2>3. CASE waitpid(p, q)
    <3>1. \A r \in Pids \ {p} : pc'[r] = pc[r] /\ arg'[r] = arg[r]
      BY Zenon, <2>3 DEF waitpid, GotoWith, Typed, CallsOK
    <3>2. pc'[p] = "wait" /\ controlling' = controlling
      BY Zenon, <2>3 DEF waitpid, GotoWith, Typed, CallsOK
    <3> QED BY Zenon, <1>2, <1>4, <3>1, <3>2 DEF CallsBorn
  <2> QED BY Zenon, <2>1, <2>2, <2>3
<1> QED BY Zenon, <1>2, <1>20, <1>3, <1>5, <1>6, <1>7 DEF Typed

(* waitpid() takes a child off the list.                                   *)
LEMMA TreeScan ==
    ASSUME TreeInv, NEW p \in Pids, waitpid_scan(p)
    PROVE  TreeInv'
<1> USE DEF TreeInv, waitpid_scan
<1>1. /\ pc[p] = "wait"
      /\ UNCHANGED <<m_state, m_parent, m_children, exec, terminated, stopped, status, handler,
                     pending, presses, controlling>>
  BY Zenon DEF Tree, Signals, Stops, Runs
<1>2. /\ \A r : Born(r)' <=> Born(r)
      /\ \A r : Kin(r)' <=> Kin(r)
  BY Zenon, <1>1 DEF Born, Kin
<1> DEFINE Goal == /\ reaped' \in [Pids -> Nat]
                   /\ \A s \in Pids : reaped'[s] = reaped[s] \/ Born(s)
                   /\ ChangeOK' /\ ChangesBorn' /\ CallsOK'
                   /\ \A r \in Pids \ {p} : pc'[r] = pc[r] /\ arg'[r] = arg[r]
                   /\ pc'[p] \in {"user", "erase"}
<1>3. Goal
  <2>1. CASE GotoWith(p, "user", NoProcess) /\ UNCHANGED <<change, reaped>>
    <3>1. ChangeOK' /\ ChangesBorn'
      BY Zenon, <1>2, <2>1, ChangesKept
    <3> QED BY Zenon, <2>1, <3>1 DEF GotoWith, Typed, CallsOK, RestOK
  <2>2. ASSUME NEW i \in DOMAIN m_children[p], Waitable(p, m_children[p][i]), Goto(p, "erase"),
               change' = [change EXCEPT ![p] = [op |-> "erase", of |-> p, at |-> i,
                              child |-> m_children[p][i], grows |-> FALSE]],
               reaped' = [reaped EXCEPT ![m_children[p][i]] = @ + 1]
        PROVE  Goal
    <3> DEFINE t == m_children[p][i]
               c == [op |-> "erase", of |-> p, at |-> i, child |-> t, grows |-> FALSE]
    <3>1. m_children[p] \in Seq(Pids)
      BY Zenon DEF Typed, TreeOK
    <3>2. i \in 1 .. Len(m_children[p]) /\ i \in Nat
      BY <3>1, <2>2
    <3>3. t \in Pids /\ Lists(m_children[p], t)
      BY <3>1, <3>2 DEF Lists
    <3>4. Kin(t) /\ Born(t)
      BY Zenon, <3>3 DEF ListsBorn, Kin
    <3> HIDE DEF t
    <3>5. c \in Changes /\ IsChange(c, p) /\ c.child = t
      BY <3>2, <3>3 DEF Changes, IsChange
    <3>6. change' = [change EXCEPT ![p] = c]
      BY Zenon, <2>2 DEF t
    <3> HIDE DEF c
    <3>7. ChangeOK' /\ ChangesBorn'
      BY Zenon, <1>2, <3>4, <3>5, <3>6, PidFacts, ChangeMade
    <3>8. reaped[t] + 1 \in Nat
      BY <3>3 DEF Typed, RestOK
    <3>9. reaped' = [reaped EXCEPT ![t] = @ + 1]
      BY Zenon, <2>2 DEF t
    <3>10. reaped' \in [Pids -> Nat] /\ \A s \in Pids : reaped'[s] = reaped[s] \/ Born(s)
      BY Zenon, <3>3, <3>4, <3>8, <3>9 DEF Typed, RestOK
    <3> QED BY Zenon, <2>2, <3>7, <3>10 DEF Goto, Typed, CallsOK
  <2> HIDE DEF Goal
  <2> QED BY Zenon, <2>1, <2>2
<1>4. TreeOK' /\ RestOK' /\ SignalsOK' /\ ListsBorn' /\ DeadWaitable'
  BY Zenon, <1>1, <1>2, <1>3 DEF Typed, TreeOK, RestOK, SignalsOK, ListsBorn, DeadWaitable
<1>5. OldFirst'
  BY Zenon, <1>1, <1>2, <1>3 DEF OldFirst
<1>7. ExecOK' /\ ExitsBorn'
  BY Zenon, <1>1, ExitsKept
<1>8. CallsBorn'
  <2>1. pc'[p] \notin {"link", "start", "console"} /\ pc[p] # "new"
    BY <1>1, <1>3
  <2>2. Born(p)
    BY Zenon, <2>1 DEF CallsBorn
  <2> QED BY Zenon, <1>1, <1>2, <1>3, <2>1, <2>2 DEF CallsBorn
<1> QED BY Zenon, <1>3, <1>4, <1>5, <1>7, <1>8 DEF Typed

(* fork() and waitpid() end their change of the own list.                  *)
LEMMA TreeLink ==
    ASSUME TreeInv, NEW p \in Pids, fork_link(p) \/ waitpid_erased(p)
    PROVE  TreeInv'
<1> USE DEF TreeInv
<1>1. /\ ChangeEnd(p) /\ pc[p] \in {"link", "erase"}
      /\ UNCHANGED <<m_state, m_parent, exec, reaped, terminated, stopped, status, handler,
                     pending, presses, controlling>>
  BY Zenon DEF fork_link, waitpid_erased, Runs, Signals, Stops
<1>2. /\ TreeOK' /\ OldFirst' /\ ListsBorn' /\ ChangeOK' /\ ChangesBorn'
      /\ \A r : Born(r)' <=> Born(r)
  BY Zenon, <1>1, PidFacts, ChangeDone
<1>3. SignalsOK' /\ RestOK' /\ DeadWaitable' /\ ExecOK' /\ ExitsBorn'
  BY Zenon, <1>1, ExitsKept DEF Typed, SignalsOK, RestOK, DeadWaitable
<1>4. /\ CallsOK' /\ \A r \in Pids \ {p} : pc'[r] = pc[r] /\ arg'[r] = arg[r]
      /\ \/ pc[p] = "link" /\ arg'[p] = arg[p] /\ pc'[p] = "start"
         \/ pc'[p] = "user"
  <2>1. CASE fork_link(p)
    BY Zenon, <2>1 DEF fork_link, Runs, Goto, Typed, CallsOK
  <2>2. CASE waitpid_erased(p)
    BY Zenon, <2>2 DEF waitpid_erased, GotoWith, Typed, CallsOK
  <2> QED BY Zenon, <2>1, <2>2
<1>5. CallsBorn'
  <2>1. pc[p] # "new" /\ (pc'[p] = "user" => pc'[p] \notin {"link", "start", "console"})
    BY <1>1
  <2>2. Born(p) /\ (pc[p] = "link" => arg[p] \in Pids /\ Born(arg[p]))
    BY Zenon, <2>1 DEF CallsBorn
  <2>3. \A r \in Pids : pc'[r] # "new" => Born(r)'
    BY Zenon, <1>2, <1>4, <2>2 DEF CallsBorn
  <2>4. ASSUME NEW r \in Pids, pc'[r] \in {"link", "start", "console"}
        PROVE  arg'[r] \in Pids /\ Born(arg'[r])
    BY Zenon, <1>4, <2>1, <2>2, <2>4 DEF CallsBorn
  <2>5. \A r \in Pids : pc'[r] \in {"link", "start", "console"} => arg'[r] \in Pids /\ Born(arg[r])'
    BY Zenon, <1>1, <2>4 DEF Born
  <2> QED BY Zenon, <1>1, <1>2, <2>3, <2>5 DEF CallsBorn, Born
<1> QED BY Zenon, <1>2, <1>3, <1>4, <1>5 DEF Typed

(* exit() of an existing process in an executor that is in none.           *)
LEMMA TreeBegin ==
    ASSUME TreeInv, NEW x \in Executors, NEW p \in Pids, Born(p), x \in {Keyboard, p},
           NEW s \in {"code", "signal"}, ExitBegin(x, p, s), UNCHANGED <<Tree, stopped, reaped>>
    PROVE  /\ ExecOK' /\ RestOK' /\ ExitsBorn' /\ DeadWaitable'
           /\ controlling' # NoProcess => Born(controlling)'
<1> USE DEF TreeInv
<1>1. /\ \A r : Born(r)' <=> Born(r)
      /\ \A r : Kin(r)' <=> Kin(r)
      /\ m_state' = m_state /\ stopped' = stopped /\ reaped' = reaped
  BY Zenon DEF Tree, Born, Kin
<1>2. /\ exec'[x] \in ExecType /\ exec' = [exec EXCEPT ![x] = exec'[x]]
      /\ exec'[x].pid = p
      /\ \/ p = InitPid /\ exec'[x].at = "halt" /\ exec'[x].todo = <<>>
         \/ p # InitPid /\ exec'[x].at = "adopt" /\ exec'[x].todo = m_children[p]
  <2>1. CASE p = InitPid
    <3> DEFINE e == [at |-> "halt", pid |-> p, todo |-> <<>>]
    <3>1. e \in ExecType
      BY Zenon, EmptyList DEF ExecType
    <3>2. exec' = [exec EXCEPT ![x] = e]
      BY Zenon, <2>1 DEF ExitBegin
    <3>3. exec'[x] = e
      BY Zenon, <3>2 DEF Typed, ExecOK
    <3>4. e.pid = p /\ e.at = "halt" /\ e.todo = <<>>
      OBVIOUS
    <3> HIDE DEF e
    <3> QED BY Zenon, <2>1, <3>1, <3>2, <3>3, <3>4
  <2>2. CASE p # InitPid
    <3> DEFINE e == [at |-> "adopt", pid |-> p, todo |-> m_children[p]]
    <3>1. e \in ExecType
      BY Zenon DEF ExecType, Typed, TreeOK
    <3>2. exec' = [exec EXCEPT ![x] = e]
      BY Zenon, <2>2 DEF ExitBegin
    <3>3. exec'[x] = e
      BY Zenon, <3>2 DEF Typed, ExecOK
    <3>4. e.pid = p /\ e.at = "adopt" /\ e.todo = m_children[p]
      OBVIOUS
    <3> HIDE DEF e
    <3> QED BY Zenon, <2>2, <3>1, <3>2, <3>3, <3>4
  <2> QED BY Zenon, <2>1, <2>2
<1>3. ExecOK'
  BY Zenon, <1>2 DEF Typed, ExecOK
<1>4. ExitsBorn'
  <2> SUFFICES ASSUME NEW y \in Executors
               PROVE  /\ exec'[y].at # "no" => /\ exec'[y].pid \in Pids /\ Born(exec'[y].pid)
                                                 /\ y \in {Keyboard, exec'[y].pid}
                      /\ exec'[y].at \in {"adopt", "zombie", "kill"} => exec'[y].pid # InitPid
                      /\ exec'[y].at = "kill" => m_state[exec'[y].pid] = "Zombie"
                      /\ \A q \in Pids : Lists(exec'[y].todo, q) => Kin(q)
    BY Zenon, <1>1 DEF ExitsBorn, Born
  <2>1. CASE y = x
    <3>1. \A q \in Pids : Lists(exec'[x].todo, q) => Kin(q)
      BY Zenon, <1>2, EmptyList DEF ListsBorn
    <3> QED BY Zenon, <1>2, <2>1, <3>1
  <2>2. CASE y # x
    <3>1. exec'[y] = exec[y]
      BY Zenon, <1>2, <2>2 DEF Typed, ExecOK
    <3> QED BY Zenon, <3>1 DEF ExitsBorn
  <2> QED BY Zenon, <2>1, <2>2
<1>5. /\ terminated' = terminated \/ terminated' = terminated \cup {InitPid}
      /\ controlling' \in {controlling, m_parent[p]}
      /\ controlling' = controlling \/ p # InitPid
      /\ status' \in {status, [status EXCEPT ![p] = s]}
  BY Zenon DEF ExitBegin
<1>6. DeadWaitable'
  BY Zenon, <1>1, <1>5 DEF DeadWaitable
<1>7. controlling' = controlling \/ (controlling' \in Pids /\ Born(controlling'))
  BY Zenon, <1>5, ParentBorn DEF Kin
<1>8. RestOK'
  BY Zenon, <1>1, <1>5, <1>7, PidFacts DEF Typed, RestOK
<1>9. controlling' # NoProcess => Born(controlling)'
  BY Zenon, <1>1, <1>7 DEF CallsBorn, Born
<1> QED BY Zenon, <1>3, <1>4, <1>6, <1>8, <1>9

(* syscall$exit keeps the tree.                                            *)
LEMMA TreeExit == ASSUME TreeInv, NEW p \in Pids, exit(p) PROVE TreeInv'
<1> USE DEF TreeInv, exit
<1>1. Born(p) /\ p \in Executors
  BY Zenon, PidFacts DEF Runs, CallsBorn
<1>2. /\ ExecOK' /\ RestOK' /\ ExitsBorn' /\ DeadWaitable'
      /\ controlling' # NoProcess => Born(controlling)'
  BY Zenon, <1>1, TreeBegin
<1>3. /\ TreeOK' /\ OldFirst' /\ ListsBorn'
      /\ \A r : Born(r)' <=> Born(r)
  BY Zenon, TreeKept DEF Tree
<1>30. ChangeOK' /\ ChangesBorn'
  BY Zenon, TreeKept, ChangesKept DEF Tree
<1>4. SignalsOK' /\ CallsOK'
  BY Zenon DEF Signals, Goto, Typed, SignalsOK, CallsOK
<1>5. CallsBorn'
  <2>1. \A r \in Pids \ {p} : pc'[r] = pc[r]
    BY Zenon DEF Goto, Typed, CallsOK
  <2>2. pc'[p] = "exit" /\ arg' = arg
    BY Zenon DEF Goto, Typed, CallsOK
  <2> QED BY Zenon, <1>1, <1>2, <1>3, <2>1, <2>2 DEF CallsBorn, Born
<1> QED BY Zenon, <1>2, <1>3, <1>30, <1>4, <1>5 DEF Typed

(* Ctrl-C keeps the tree.                                                  *)
LEMMA TreeSignal == ASSUME TreeInv, send_signal PROVE TreeInv'
<1> USE DEF TreeInv, send_signal
<1>1. controlling \in Pids /\ Born(controlling)
  BY Zenon DEF Typed, RestOK, CallsBorn
<1>2. /\ UNCHANGED <<Tree, stopped, reaped, pc, arg, handler, change>>
      /\ presses' = presses + 1 /\ presses < CtrlC
  BY Zenon DEF Calls
<1>3. \/ ExitBegin(Keyboard, controlling, "signal") /\ UNCHANGED pending
      \/ UNCHANGED <<exec, terminated, status, controlling, pending>>
      \/ /\ pending' = [pending EXCEPT ![controlling] = TRUE]
         /\ UNCHANGED <<exec, terminated, status, controlling>>
  BY Zenon
<1>4. presses' \in 0 .. CtrlC
  BY <1>2, ProcessAssumption DEF Typed, SignalsOK
<1>5. SignalsOK' /\ CallsOK'
  <2>1. pending' \in [Pids -> BOOLEAN]
    BY Zenon, <1>3, <1>1 DEF Typed, SignalsOK
  <2> QED BY Zenon, <1>2, <1>4, <2>1 DEF Typed, SignalsOK, CallsOK
<1>6. /\ TreeOK' /\ OldFirst' /\ ListsBorn'
      /\ \A r : Born(r)' <=> Born(r)
  BY Zenon, <1>2, TreeKept DEF Tree
<1>60. ChangeOK' /\ ChangesBorn'
  BY Zenon, <1>2, TreeKept, ChangesKept DEF Tree
<1>7. /\ ExecOK' /\ RestOK' /\ ExitsBorn' /\ DeadWaitable'
      /\ controlling' # NoProcess => Born(controlling)'
  <2>1. CASE ExitBegin(Keyboard, controlling, "signal")
    BY Zenon, <1>1, <1>2, <2>1, TreeBegin, PidFacts
  <2>2. CASE UNCHANGED <<exec, terminated, status, controlling>>
    BY Zenon, <1>1, <1>2, <2>2, <1>6, ExitsKept DEF Tree, Typed, RestOK, DeadWaitable, Born
  <2> QED BY Zenon, <1>3, <2>1, <2>2
<1>8. CallsBorn'
  BY Zenon, <1>2, <1>6, <1>7 DEF CallsBorn, Born
<1> QED BY Zenon, <1>5, <1>6, <1>60, <1>7, <1>8 DEF Typed

(* What adopt() does, with init as the reaper.                             *)
LEMMA AdoptFacts ==
    ASSUME TreeInv, NEW x \in Executors, adopt(x)
    PROVE  LET q == Head(exec[x].todo) IN
           /\ exec[x].at = "adopt" /\ exec[x].todo # <<>> /\ exec[x].todo \in Seq(Pids)
           /\ q \in Pids /\ Kin(q) /\ Lists(exec[x].todo, q)
           /\ exec[x].pid \in Pids /\ exec[x].pid # InitPid
           /\ m_parent' = [m_parent EXCEPT ![q] = InitPid]
           /\ change[x] = NoChange /\ PushBegin(x, InitPid, q, "resize")
           /\ exec'[x].at = "adopt" /\ exec'[x].pid = exec[x].pid
           /\ exec'[x].todo = Tail(exec[x].todo)
           /\ \A y \in Executors \ {x} : exec'[y] = exec[y]
           /\ ExecOK'
           /\ UNCHANGED <<m_state, m_children, controlling, status, handler, pending, presses,
                          terminated, stopped, pc, arg, reaped>>
<1> USE DEF TreeInv, adopt
<1> DEFINE q == Head(exec[x].todo)
<1>1. exec[x].at = "adopt" /\ exec[x].todo # <<>>
  BY Zenon DEF Exits
<1>2. exec[x] \in ExecType
  BY Zenon DEF Typed, ExecOK
<1>3. exec[x].todo \in Seq(Pids)
  BY Zenon, <1>2 DEF ExecType
<1>4. q \in Pids /\ Tail(exec[x].todo) \in Seq(Pids) /\ Lists(exec[x].todo, q)
  BY Zenon, <1>1, <1>3, TailList
<1>5. exec[x].pid \in Pids /\ exec[x].pid # InitPid /\ Born(exec[x].pid) /\ Kin(q)
  BY Zenon, <1>1, <1>4 DEF ExitsBorn
<1>6. Reaper(exec[x].pid) = InitPid
  BY Zenon, <1>5, ReaperInit
<1> DEFINE e == [exec[x] EXCEPT !.todo = Tail(exec[x].todo)]
<1>7. /\ e \in ExecType /\ e.at = exec[x].at /\ e.pid = exec[x].pid
      /\ e.todo = Tail(exec[x].todo)
  BY Zenon, <1>2, <1>4 DEF ExecType
<1>8. exec' = [exec EXCEPT ![x] = e]
  BY Zenon
<1> HIDE DEF e
<1>9. ExecOK' /\ exec'[x] = e /\ \A y \in Executors \ {x} : exec'[y] = exec[y]
  BY Zenon, <1>7, <1>8 DEF Typed, ExecOK
<1>10. UNCHANGED <<m_state, m_children, controlling, status, handler, pending, presses,
                   terminated, stopped, pc, arg, reaped>>
  BY Zenon DEF Signals, Stops, Calls
<1> QED BY Zenon, <1>1, <1>3, <1>4, <1>5, <1>6, <1>7, <1>9, <1>10

(* Handing a child to init keeps the tree.                                 *)
LEMMA TreeAdopt == ASSUME TreeInv, NEW x \in Executors, adopt(x) PROVE TreeInv'
<1> USE DEF TreeInv
<1> DEFINE q == Head(exec[x].todo)
<1>1. /\ exec[x].at = "adopt" /\ exec[x].todo # <<>> /\ exec[x].todo \in Seq(Pids)
      /\ q \in Pids /\ Kin(q) /\ exec[x].pid \in Pids /\ exec[x].pid # InitPid
      /\ m_parent' = [m_parent EXCEPT ![q] = InitPid]
      /\ PushBegin(x, InitPid, q, "resize")
      /\ ExecOK'
  BY Zenon, AdoptFacts
<1>2. /\ exec'[x].at = "adopt" /\ exec'[x].pid = exec[x].pid
      /\ exec'[x].todo = Tail(exec[x].todo)
      /\ \A y \in Executors \ {x} : exec'[y] = exec[y]
      /\ UNCHANGED <<m_state, m_children, controlling, status, handler, pending, presses,
                     terminated, stopped, pc, arg, reaped>>
  BY Zenon, AdoptFacts
<1>3. /\ \A r : Born(r)' <=> Born(r)
      /\ \A r : Kin(r)' <=> Kin(r)
  BY Zenon, <1>2 DEF Born, Kin
<1> HIDE DEF q
<1>6. TreeOK'
  <2>2. m_parent' \in [Pids -> Pids \cup {NoProcess}]
    BY Zenon, <1>1, PidFacts DEF Typed, TreeOK
  <2> QED BY Zenon, <1>2, <2>2 DEF Typed, TreeOK
<1>7. OldFirst'
  <2>1. \A r \in Pids : r # q => m_parent'[r] = m_parent[r]
    BY Zenon, <1>1 DEF Typed, TreeOK
  <2>2. m_parent'[q] = InitPid
    BY Zenon, <1>1 DEF Typed, TreeOK
  <2>3. q # InitPid /\ InitPid < q
    BY <1>1, PidFacts DEF Kin, InitPid
  <2>4. \A r \in Pids : Kin(r)' => m_parent'[r] \in Pids /\ m_parent'[r] < r
    BY Zenon, <1>3, <2>1, <2>2, <2>3, PidFacts DEF OldFirst
  <2>5. \A r \in Pids : ~Born(r)' => m_parent'[r] = NoProcess /\ reaped'[r] = 0
    BY Zenon, <1>1, <1>2, <1>3, <2>1 DEF OldFirst, Kin
  <2>6. m_state'[InitPid] = "Running" /\ m_parent'[InitPid] = NoProcess
    BY Zenon, <1>2, <2>1, <2>3, PidFacts DEF OldFirst
  <2>7. \A r, s \in Pids : r < s /\ Born(s)' => Born(r)'
    BY Zenon, <1>3 DEF OldFirst
  <2> QED BY Zenon, <2>4, <2>5, <2>6, <2>7 DEF OldFirst
<1>8. ListsBorn'
  BY Zenon, <1>2, <1>3 DEF ListsBorn
<1>80. ChangeOK' /\ ChangesBorn'
  <2> HIDE DEF TreeInv
  <2>1. PICK c \in Changes : /\ change' = [change EXCEPT ![x] = c]
                             /\ c.op = "resize" /\ c.of = InitPid /\ c.child = q
                             /\ c.at = Len(m_children[InitPid]) + 1
    <3>1. "resize" \in {"append", "resize"} /\ InitPid \in Pids
      BY Zenon, PidFacts
    <3> QED BY <1>1, <3>1, PushFacts
  <2>2. IsChange(c, x)
    BY <1>1, <2>1, PidFacts DEF IsChange
  <2> QED BY Zenon, <1>1, <1>3, <2>1, <2>2, ChangeMade
<1>9. SignalsOK' /\ CallsOK' /\ RestOK' /\ DeadWaitable'
  <2>1. SignalsOK' /\ CallsOK'
    BY Zenon, <1>2 DEF Typed, SignalsOK, CallsOK
  <2>2. RestOK' /\ DeadWaitable'
    BY Zenon, <1>1, <1>2, PidFacts DEF Typed, RestOK, DeadWaitable
  <2> QED BY Zenon, <2>1, <2>2
<1>10. CallsBorn'
  <2>2. controlling' # NoProcess => Born(controlling)'
    BY Zenon, <1>2 DEF CallsBorn, Born
  <2>3. \A p \in Pids : pc'[p] # "new" => Born(p)'
    BY Zenon, <1>2, <1>3 DEF CallsBorn
  <2>4. \A p \in Pids : pc'[p] \in {"link", "start", "console"} => arg'[p] \in Pids /\ Born(arg[p])'
    BY Zenon, <1>2 DEF CallsBorn, Born
  <2> QED BY Zenon, <2>2, <2>3, <2>4 DEF CallsBorn
<1>11. ExitsBorn'
  <2> SUFFICES ASSUME NEW y \in Executors
               PROVE  /\ exec'[y].at # "no" => /\ exec'[y].pid \in Pids /\ Born(exec'[y].pid)
                                                 /\ y \in {Keyboard, exec'[y].pid}
                      /\ exec'[y].at \in {"adopt", "zombie", "kill"} => exec'[y].pid # InitPid
                      /\ exec'[y].at = "kill" => m_state[exec'[y].pid] = "Zombie"
                      /\ \A r \in Pids : Lists(exec'[y].todo, r) => Kin(r)
    BY Zenon, <1>2, <1>3 DEF ExitsBorn, Born
  <2>1. CASE y = x
    <3>1. \A r : Lists(Tail(exec[x].todo), r) => Lists(exec[x].todo, r)
      BY Zenon, <1>1, TailList
    <3> QED BY Zenon, <1>1, <1>2, <2>1, <3>1 DEF ExitsBorn
  <2>2. CASE y # x
    <3>1. exec'[y] = exec[y]
      BY Zenon, <1>2, <2>2
    <3> QED BY Zenon, <3>1 DEF ExitsBorn
  <2> QED BY Zenon, <2>1, <2>2
<1> QED BY Zenon, <1>1, <1>6, <1>7, <1>8, <1>80, <1>9, <1>10, <1>11 DEF Typed

(* The end of push_back() in adopt().                                      *)
LEMMA TreeAdopted == ASSUME TreeInv, NEW x \in Executors, adopt_end(x) PROVE TreeInv'
<1> USE DEF TreeInv
<1>1. /\ ChangeEnd(x) /\ change[x] # NoChange
      /\ UNCHANGED <<m_state, m_parent, exec, reaped, terminated, stopped, status, handler,
                     pending, presses, pc, arg>>
      /\ controlling' \in {controlling, change[x].of}
  BY Zenon DEF adopt_end, Signals, Stops, Calls
<1>2. /\ TreeOK' /\ OldFirst' /\ ListsBorn' /\ ChangeOK' /\ ChangesBorn'
      /\ \A r : Born(r)' <=> Born(r)
  BY Zenon, <1>1, ChangeDone
<1>3. change[x].of \in Pids /\ Born(change[x].of)
  <2>1. IsChange(change[x], x) /\ Kin(change[x].child)
    BY Zenon, <1>1 DEF ChangesBorn
  <2>2. CASE change[x].op = "resize"
    BY Zenon, <2>1, <2>2 DEF IsChange, OldFirst, Born
  <2>3. CASE change[x].op # "resize"
    <3>1. x \in Pids /\ change[x].of = x
      BY Zenon, <2>1, <2>3 DEF IsChange
    <3>2. exec[x].at # "no"
      BY DEF adopt_end, Exits
    <3> QED BY Zenon, <3>1, <3>2, PidFacts DEF ExitsBorn
  <2> QED BY Zenon, <2>2, <2>3
<1>4. SignalsOK' /\ CallsOK' /\ RestOK' /\ DeadWaitable' /\ ExecOK' /\ ExitsBorn'
  BY Zenon, <1>1, <1>3, ExitsKept DEF Typed, SignalsOK, CallsOK, RestOK, DeadWaitable
<1>5. CallsBorn'
  BY Zenon, <1>1, <1>2, <1>3 DEF CallsBorn, Born
<1> QED BY Zenon, <1>2, <1>4, <1>5 DEF Typed

(* What the other steps of exit() do to the executor.                      *)
LEMMA ExitFacts ==
    ASSUME TreeInv, NEW x \in Executors, exit_clear(x) \/ exit_zombie(x) \/ exit_kill(x)
    PROVE  /\ exec[x].pid \in Pids /\ Kin(exec[x].pid) /\ ExecOK'
           /\ exec'[x].at # "no" => exec'[x].pid = exec[x].pid
           /\ exec'[x].todo \in {exec[x].todo, <<>>}
           /\ exit_clear(x) => exec[x].at = "adopt" /\ exec[x].todo = <<>> /\ exec'[x].at = "zombie"
           /\ exit_zombie(x) => exec[x].at = "zombie" /\ exec'[x].at = "kill"
           /\ exit_kill(x) => exec[x].at = "kill" /\ exec'[x].at = "no"
           /\ \A y \in Executors \ {x} : exec'[y] = exec[y]
           /\ UNCHANGED <<m_parent, status, handler, pending, presses, controlling, stopped, arg,
                          reaped, change>>
<1> USE DEF TreeInv
<1>1. exec[x] \in ExecType
  BY Zenon DEF Typed, ExecOK
<1>2. exec[x].at \in {"adopt", "zombie", "kill"}
  BY Zenon DEF exit_clear, exit_zombie, exit_kill, Exits
<1>3. exec[x].pid \in Pids /\ Kin(exec[x].pid)
  BY Zenon, <1>2 DEF ExitsBorn, Kin
<1>4. UNCHANGED <<m_parent, status, handler, pending, presses, controlling, stopped, arg,
                  reaped, change>>
  BY Zenon DEF exit_clear, exit_zombie, exit_kill, Signals, Stops, Calls, Tree, Goto
<1>5. PICK e \in ExecType :
        /\ exec' = [exec EXCEPT ![x] = e]
        /\ e.at # "no" => e.pid = exec[x].pid
        /\ e.todo \in {exec[x].todo, <<>>}
        /\ exit_clear(x) => exec[x].at = "adopt" /\ exec[x].todo = <<>> /\ e.at = "zombie"
        /\ exit_zombie(x) => exec[x].at = "zombie" /\ e.at = "kill"
        /\ exit_kill(x) => exec[x].at = "kill" /\ e.at = "no"
  <2>1. CASE exit_clear(x)
    <3> DEFINE e == [exec[x] EXCEPT !.at = "zombie"]
    <3>1. e \in ExecType /\ e.at = "zombie" /\ e.pid = exec[x].pid /\ e.todo = exec[x].todo
      BY Zenon, <1>1 DEF ExecType
    <3>2. exec' = [exec EXCEPT ![x] = e] /\ exec[x].at = "adopt" /\ exec[x].todo = <<>>
      BY Zenon, <2>1 DEF exit_clear, Exits
    <3> HIDE DEF e
    <3>3. exec[x].at \notin {"zombie", "kill"}
      BY <3>2
    <3> QED BY Zenon, <2>1, <3>1, <3>2, <3>3 DEF exit_zombie, exit_kill, Exits
  <2>2. CASE exit_zombie(x)
    <3> DEFINE e == [exec[x] EXCEPT !.at = "kill"]
    <3>1. e \in ExecType /\ e.at = "kill" /\ e.pid = exec[x].pid /\ e.todo = exec[x].todo
      BY Zenon, <1>1 DEF ExecType
    <3>2. exec' = [exec EXCEPT ![x] = e] /\ exec[x].at = "zombie"
      BY Zenon, <2>2 DEF exit_zombie, Exits
    <3> HIDE DEF e
    <3>3. exec[x].at \notin {"adopt", "kill"}
      BY <3>2
    <3> QED BY Zenon, <2>2, <3>1, <3>2, <3>3 DEF exit_clear, exit_kill, Exits
  <2>3. CASE exit_kill(x)
    <3>1. NoExit \in ExecType /\ NoExit.at = "no" /\ NoExit.todo = <<>>
      BY Zenon, EmptyList DEF NoExit, ExecType
    <3>2. exec' = [exec EXCEPT ![x] = NoExit] /\ exec[x].at = "kill"
      BY Zenon, <2>3 DEF exit_kill, Exits
    <3>3. exec[x].at \notin {"adopt", "zombie"}
      BY <3>2
    <3> QED BY Zenon, <2>3, <3>1, <3>2, <3>3 DEF exit_clear, exit_zombie, Exits
  <2> QED BY Zenon, <2>1, <2>2, <2>3
<1>6. ExecOK' /\ exec'[x] = e /\ \A y \in Executors \ {x} : exec'[y] = exec[y]
  BY Zenon, <1>5 DEF Typed, ExecOK
<1> QED BY Zenon, <1>3, <1>4, <1>5, <1>6

(* The end of exit() keeps the tree: a process becomes a zombie before its *)
(* threads are marked Terminated.                                          *)
LEMMA TreeEnd ==
    ASSUME TreeInv, NEW x \in Executors, exit_clear(x) \/ exit_zombie(x) \/ exit_kill(x)
    PROVE  TreeInv'
<1> USE DEF TreeInv
<1> DEFINE p == exec[x].pid
<1>1. /\ p \in Pids /\ Kin(p) /\ ExecOK'
      /\ exec'[x].at # "no" => exec'[x].pid = exec[x].pid
      /\ exec'[x].todo \in {exec[x].todo, <<>>}
      /\ \A y \in Executors \ {x} : exec'[y] = exec[y]
      /\ UNCHANGED <<m_parent, status, handler, pending, presses, controlling, stopped, arg,
                     reaped, change>>
  BY Zenon, ExitFacts
<1>2. /\ exit_clear(x) => exec'[x].at = "zombie"
      /\ exit_zombie(x) => exec'[x].at = "kill"
      /\ exit_kill(x) => exec[x].at = "kill" /\ exec'[x].at = "no"
  BY Zenon, ExitFacts
<1>3. /\ m_state' = m_state \/ (exit_zombie(x) /\ m_state' = [m_state EXCEPT ![p] = "Zombie"])
      /\ m_children' = m_children \/ m_children' = [m_children EXCEPT ![p] = <<>>]
      /\ terminated' = terminated \/ (exit_kill(x) /\ terminated' = terminated \cup {p})
      /\ pc' = pc \/ (exit_kill(x) /\ x # Keyboard /\ pc' = [pc EXCEPT ![x] = "yield"])
  BY Zenon DEF exit_clear, exit_zombie, exit_kill, Calls, Stops, Tree, Goto
<1> HIDE DEF p
<1>4. /\ \A r \in Pids : m_state'[r] = m_state[r] \/ (r = p /\ m_state'[r] = "Zombie")
      /\ exit_zombie(x) => m_state'[p] = "Zombie"
  BY Zenon, <1>1, <1>3 DEF Typed, TreeOK, exit_zombie, p
<1>5. /\ \A r \in Pids : Born(r)' <=> Born(r)
      /\ \A r \in Pids : Kin(r)' <=> Kin(r)
      /\ \A r \in Pids : m_state[r] = "Zombie" => m_state'[r] = "Zombie"
  <2>1. \A r \in Pids : Born(r)' <=> Born(r)
    BY Zenon, <1>1, <1>4 DEF Born, Kin
  <2> QED BY Zenon, <1>4, <2>1 DEF Kin
<1>50. ChangeOK' /\ ChangesBorn'
  BY Zenon, <1>1, <1>5, ChangesKept
<1>6. TreeOK'
  BY Zenon, <1>1, <1>3, EmptyList DEF Typed, TreeOK
<1>7. OldFirst'
  <2>1. m_state'[InitPid] = "Running"
    BY Zenon, <1>1, <1>4, PidFacts DEF OldFirst, Kin
  <2> QED BY Zenon, <1>1, <1>5, <2>1 DEF OldFirst
<1>8. ListsBorn'
  <2>1. ASSUME NEW r \in Pids, NEW s \in Pids, Lists(m_children'[r], s)
        PROVE  Lists(m_children[r], s)
    BY Zenon, <1>1, <1>3, <2>1, EmptyList DEF Typed, TreeOK
  <2> QED BY Zenon, <2>1, <1>5 DEF ListsBorn
<1>9. SignalsOK' /\ RestOK'
  BY Zenon, <1>1, <1>3 DEF Typed, SignalsOK, RestOK
<1>10. CallsOK'
  BY Zenon, <1>1, <1>3, PidFacts DEF Typed, CallsOK
<1>11. CallsBorn'
  <2>1. \A r \in Pids : pc'[r] = pc[r] \/ (pc'[r] = "yield" /\ r = x /\ exit_kill(x) /\ x # Keyboard)
    BY Zenon, <1>3 DEF Typed, CallsOK
  <2>2. ASSUME NEW r \in Pids, pc'[r] # "new" PROVE Born(r)'
    <3>1. CASE pc'[r] = pc[r]
      BY Zenon, <2>2, <3>1, <1>5 DEF CallsBorn
    <3>2. CASE r = x /\ exit_kill(x) /\ x # Keyboard
      <4>1. exec[x].at # "no"
        BY <1>2, <3>2
      <4> QED BY Zenon, <3>2, <4>1, <1>5 DEF ExitsBorn
    <3> QED BY Zenon, <2>1, <3>1, <3>2
  <2>3. controlling' # NoProcess => Born(controlling)'
    BY Zenon, <1>1, <1>5 DEF CallsBorn, Typed, RestOK
  <2>4. \A r \in Pids : pc'[r] \in {"link", "start", "console"} => arg'[r] \in Pids /\ Born(arg[r])'
    BY Zenon, <1>1, <1>5, <2>1 DEF CallsBorn
  <2> QED BY Zenon, <2>2, <2>3, <2>4 DEF CallsBorn
<1>12. ExitsBorn'
  <2> SUFFICES ASSUME NEW y \in Executors
               PROVE  /\ exec'[y].at # "no" => /\ exec'[y].pid \in Pids /\ Born(exec[y].pid)'
                                                 /\ y \in {Keyboard, exec'[y].pid}
                      /\ exec'[y].at \in {"adopt", "zombie", "kill"} => exec'[y].pid # InitPid
                      /\ exec'[y].at = "kill" => m_state'[exec'[y].pid] = "Zombie"
                      /\ \A r \in Pids : Lists(exec'[y].todo, r) => Kin(r)'
    BY Zenon DEF ExitsBorn
  <2>1. CASE y = x
    <3>1. exec'[x].at # "no" => Born(exec[x].pid)'
      BY Zenon, <1>1, <1>5 DEF p, Kin, Born
    <3>2. exec'[x].at # "no" => exec'[x].pid = p /\ p # InitPid /\ p \in Pids /\ x \in {Keyboard, p}
      <4>1. exec[x].at # "no"
        BY Zenon DEF exit_clear, exit_zombie, exit_kill, Exits
      <4> QED BY Zenon, <1>1, <4>1 DEF p, Kin, ExitsBorn
    <3>3. exec'[x].at = "kill" => m_state'[p] = "Zombie"
      <4>1. exit_clear(x) \/ exit_kill(x) => exec'[x].at # "kill"
        BY <1>2
      <4> QED BY Zenon, <4>1, <1>4
    <3>4. \A r \in Pids : Lists(exec'[x].todo, r) => Kin(r)'
      BY Zenon, <1>1, <1>5, EmptyList DEF ExitsBorn
    <3>5. exec'[x].at \in {"adopt", "zombie", "kill"} => exec'[x].at # "no"
      OBVIOUS
    <3> QED BY Zenon, <2>1, <3>1, <3>2, <3>3, <3>4, <3>5
  <2>2. CASE y # x
    <3>1. exec'[y] = exec[y]
      BY Zenon, <1>1, <2>2
    <3>2. exec[y].at # "no" => /\ exec[y].pid \in Pids /\ Born(exec[y].pid)
                               /\ y \in {Keyboard, exec[y].pid}
      BY Zenon DEF ExitsBorn
    <3>3. exec'[y].at # "no" => Born(exec[y].pid)'
      BY Zenon, <1>5, <3>1, <3>2 DEF Born
    <3>4. exec[y].at = "kill" => exec[y].at # "no"
      OBVIOUS
    <3> QED BY Zenon, <1>5, <3>1, <3>2, <3>3, <3>4 DEF ExitsBorn
  <2> QED BY Zenon, <2>1, <2>2
<1>13. DeadWaitable'
  <2>1. exit_kill(x) => m_state[p] = "Zombie"
    BY Zenon, <1>2 DEF ExitsBorn, p
  <2>2. \A r \in terminated' : r \in Pids
    BY Zenon, <1>9 DEF RestOK
  <2>3. \A r \in terminated' : r = InitPid \/ m_state[r] = "Zombie"
    BY Zenon, <1>3, <2>1 DEF DeadWaitable
  <2> QED BY Zenon, <1>1, <1>3, <1>5, <2>2, <2>3 DEF DeadWaitable
<1> QED BY Zenon, <1>1, <1>50, <1>6, <1>7, <1>8, <1>9, <1>10, <1>11, <1>12, <1>13 DEF Typed

(* Steps that touch neither the tree nor the calls.                        *)
LEMMA TreeAside ==
    ASSUME TreeInv,
           \/ \E p \in Pids : stop(p) \/ prepare_next_signal(p)
           \/ \E p \in Pids, h \in Handlers : set_signal_handler(p, h)
           \/ UNCHANGED vars
    PROVE  /\ TreeInv' /\ presses' = presses
           /\ UNCHANGED <<m_state, m_parent, m_children, exec, change, reaped, pc, arg>>
<1> USE DEF TreeInv
<1>1. UNCHANGED <<m_state, m_parent, m_children, exec, change, reaped, pc, arg, status,
                  controlling, terminated, presses>>
  BY Zenon DEF stop, prepare_next_signal, set_signal_handler, Tree, Calls, Signals, Stops, vars
<1>2. /\ TreeOK' /\ OldFirst' /\ ListsBorn' /\ ExecOK' /\ ExitsBorn'
      /\ \A r : Born(r)' <=> Born(r)
  BY Zenon, <1>1, TreeKept, ExitsKept
<1>20. ChangeOK' /\ ChangesBorn'
  BY Zenon, <1>1, TreeKept, ChangesKept
<1>3. stopped' = stopped \/ \E p \in terminated : stopped' = stopped \cup {p}
  BY Zenon DEF stop, prepare_next_signal, set_signal_handler, Stops, vars
<1>4. CallsOK' /\ RestOK' /\ DeadWaitable'
  BY Zenon, <1>1, <1>3 DEF Typed, CallsOK, RestOK, DeadWaitable
<1>5. CallsBorn'
  BY Zenon, <1>1 DEF CallsBorn, Born
<1>6. SignalsOK'
  <2>1. ASSUME NEW p \in Pids, stop(p) \/ prepare_next_signal(p) PROVE SignalsOK'
    BY Zenon, <2>1, <1>1 DEF stop, prepare_next_signal, Typed, SignalsOK, Signals
  <2>2. ASSUME NEW p \in Pids, NEW h \in Handlers, set_signal_handler(p, h) PROVE SignalsOK'
    BY Zenon, <2>2, <1>1, ProcessAssumption DEF set_signal_handler, Typed, SignalsOK
  <2>3. ASSUME UNCHANGED vars PROVE SignalsOK'
    BY Zenon, <2>3 DEF vars, Typed, SignalsOK
  <2> QED BY Zenon, <2>1, <2>2, <2>3
<1> QED BY Zenon, <1>1, <1>2, <1>20, <1>4, <1>5, <1>6 DEF Typed

(* Every step keeps the tree.                                              *)
LEMMA TreeNext == TreeInv /\ [Next]_vars => TreeInv'
<1> SUFFICES ASSUME TreeInv, [Next]_vars PROVE TreeInv'
  OBVIOUS
<1>1. ASSUME NEW p \in Pids, Syscall(p) PROVE TreeInv'
  BY Zenon, <1>1, TreeFork, TreeSyscall, TreeLink, TreeExit, TreeScan DEF Syscall, Goes
<1>2. ASSUME NEW x \in Executors, Exit(x) PROVE TreeInv'
  BY Zenon, <1>2, TreeAdopt, TreeAdopted, TreeEnd DEF Exit
<1> QED BY Zenon, <1>1, <1>2, TreeSignal, TreeAside DEF Next, Watched, Step

----------------------------------------------------------------------------
(* What a change makes of a vector.                                        *)
LEMMA AfterCases ==
    ASSUME NEW c, NEW v
    PROVE  /\ c.op = "append" => After(c, v) = Append(v, c.child)
           /\ c.op = "resize" => After(c, v) = resize(v, c.at, c.child)
           /\ c.op = "erase" => After(c, v) = erase(v, c.at)
BY DEF After

(* The list of one whose vector x alone changes.                           *)
LEMMA ListingOne ==
    ASSUME NEW f, NEW v, NEW p \in Pids, NEW x \in Executors, f[x].of = p,
           \A y \in Executors : f[y].of = p => y = x
    PROVE  (IF \E y \in Executors : f[y].of = p
            THEN After(f[CHOOSE y \in Executors : f[y].of = p], v[p])
            ELSE v[p]) = After(f[x], v[p])
<1>1. (CHOOSE y \in Executors : f[y].of = p) = x
  <2>1. \E y \in Executors : f[y].of = p
    BY Zenon
  <2> QED BY Zenon, <2>1
<1> QED BY Zenon, <1>1

(* The change of x is one of the list of p.                                *)
LEMMA ListingOf ==
    ASSUME Apart, NEW x \in Executors, NEW p \in Pids, change[x].of = p, change[x].op # "none"
    PROVE  Listing(p) = After(change[x], m_children[p])
<1>1. \A y \in Executors : change[y].of = p => y = x
  BY Zenon DEF Apart
<1> QED BY Zenon, <1>1, ListingOne DEF Listing

(* Nobody changes the list of p.                                           *)
LEMMA ListingNone ==
    ASSUME NEW p \in Pids, \A x \in Executors : change[x].of # p
    PROVE  Listing(p) = m_children[p]
BY Zenon DEF Listing

(* NoChange is a change of no process's list.                              *)
LEMMA NoChangeFacts ==
    /\ NoChange.op = "none" /\ NoChange.of \notin Pids
    /\ NoChange.op \notin {"append", "erase", "resize"}
BY PidFacts DEF NoChange

(* A step that leaves the vectors leaves the lists.                        *)
LEMMA ListingKept ==
    ASSUME UNCHANGED <<m_children, change>>
    PROVE  \A p \in Pids : Listing(p)' = Listing(p)
BY Zenon DEF Listing

(* The lists have existing processes in them.                              *)
LEMMA ListingSeq ==
    ASSUME TreeInv, Apart, NEW p \in Pids
    PROVE  Listing(p) \in Seq(Pids) /\ \A q \in Pids : Lists(Listing(p), q) => Kin(q)
<1>1. m_children[p] \in Seq(Pids) /\ \A q \in Pids : Lists(m_children[p], q) => Kin(q)
  BY Zenon DEF TreeInv, Typed, TreeOK, ListsBorn
<1>2. ASSUME NEW x \in Executors, change[x].of = p
      PROVE  Listing(p) \in Seq(Pids) /\ \A q \in Pids : Lists(Listing(p), q) => Kin(q)
  <2>1. change[x] # NoChange
    BY Zenon, <1>2, NoChangeFacts
  <2>2. /\ change[x].op # "none" /\ change[x].child \in Pids /\ Kin(change[x].child)
        /\ change[x] \in Changes
    BY Zenon, <2>1 DEF TreeInv, Typed, ChangeOK, ChangesBorn, IsChange
  <2>3. Listing(p) = After(change[x], m_children[p])
    BY Zenon, <1>2, <2>2, ListingOf
  <2> QED BY Zenon, <1>1, <2>2, <2>3, AfterList
<1> QED BY Zenon, <1>1, <1>2, ListingNone

(* A change begins: it shows in the list it is of.                         *)
LEMMA ListingBegin ==
    ASSUME TreeInv, Apart, Apart', NEW x \in Executors, NEW c, c.op # "none",
           NEW p \in Pids, c.of = p, change[x] = NoChange, change' = [change EXCEPT ![x] = c],
           m_children' = m_children
    PROVE  /\ Listing(p) = m_children[p] /\ Listing(p)' = After(c, m_children[p])
           /\ \A r \in Pids : r # p => Listing(r)' = Listing(r)
<1>1. change'[x] = c /\ \A y \in Executors : y # x => change'[y] = change[y]
  BY Zenon DEF TreeInv, Typed, ChangeOK
<1>20. change'[x].of = p /\ change'[x].op # "none"
  BY Zenon, <1>1
<1>2. \A y \in Executors : change'[y].of = p => y = x
  BY Zenon, <1>20 DEF Apart
<1>3. Listing(p) = m_children[p]
  BY Zenon, <1>1, <1>2, NoChangeFacts, ListingNone
<1>4. Listing(p)' = After(change'[x], m_children'[p])
  <2>1. change'[x].of = p
    BY Zenon, <1>1
  <2> QED BY Zenon, <1>2, <2>1, ListingOne DEF Listing
<1>5. ASSUME NEW r \in Pids, r # p PROVE Listing(r)' = Listing(r)
  <2>1. ASSUME NEW y \in Executors, change[y].of = r PROVE Listing(r)' = Listing(r)
    <3>1. change[y] # NoChange /\ y # x
      BY Zenon, <2>1, NoChangeFacts
    <3>2. change'[y] = change[y]
      BY Zenon, <1>1, <3>1
    <3>3. change[y].op # "none"
      BY Zenon, <3>1 DEF TreeInv, ChangesBorn, IsChange
    <3>4. \A z \in Executors : change'[z].of = r => z = y
      BY Zenon, <2>1, <3>2, <3>3 DEF Apart
    <3>5. Listing(r)' = After(change'[y], m_children'[r])
      BY Zenon, <2>1, <3>2, <3>4, ListingOne DEF Listing
    <3>6. Listing(r) = After(change[y], m_children[r])
      BY Zenon, <2>1, <3>3, ListingOf
    <3> QED BY Zenon, <3>2, <3>5, <3>6
  <2>2. CASE \A y \in Executors : change[y].of # r
    <3>1. \A y \in Executors : change'[y].of # r
      BY Zenon, <1>1, <1>5, <2>2
    <3>2. Listing(r)' = m_children'[r]
      BY Zenon, <3>1 DEF Listing
    <3> QED BY Zenon, <2>2, <3>2, ListingNone
  <2> QED BY Zenon, <2>1, <2>2
<1> QED BY Zenon, <1>1, <1>3, <1>4, <1>5

(* A change ends: the lists stay.                                          *)
LEMMA ListingEnd ==
    ASSUME TreeInv, Apart, Apart', NEW x \in Executors, ChangeEnd(x)
    PROVE  \A r \in Pids : Listing(r)' = Listing(r)
<1>a. CASE change[x] = NoChange
  <2>1. UNCHANGED <<m_children, change>>
    BY <1>a, NoChangeFacts DEF ChangeEnd, TreeInv, Typed, TreeOK, ChangeOK
  <2> QED BY Zenon, <2>1, ListingKept
<1> SUFFICES ASSUME change[x] # NoChange PROVE \A r \in Pids : Listing(r)' = Listing(r)
  BY Zenon, <1>a
<1>0. PICK p \in Pids : change[x].of = p /\ change[x].op # "none"
  BY Zenon DEF TreeInv, ChangesBorn, IsChange
<1>1. /\ change'[x] = NoChange /\ \A y \in Executors : y # x => change'[y] = change[y]
      /\ m_children' = [m_children EXCEPT ![p] = After(change[x], @)]
  BY Zenon, <1>0 DEF ChangeEnd, TreeInv, Typed, ChangeOK
<1>3. /\ m_children'[p] = After(change[x], m_children[p])
      /\ \A r \in Pids : r # p => m_children'[r] = m_children[r]
  BY Zenon, <1>1 DEF TreeInv, Typed, TreeOK
<1>4. Listing(p) = After(change[x], m_children[p])
  BY Zenon, <1>0, ListingOf
<1>5. Listing(p)' = m_children'[p]
  <2>1. \A y \in Executors : change[y].of = p => y = x
    BY Zenon, <1>0 DEF Apart
  <2>2. \A y \in Executors : change'[y].of # p
    BY Zenon, <1>1, <2>1, NoChangeFacts
  <2> QED BY Zenon, <2>2 DEF Listing
<1>6. ASSUME NEW r \in Pids, r # p PROVE Listing(r)' = Listing(r)
  <2>1. ASSUME NEW y \in Executors, change[y].of = r PROVE Listing(r)' = Listing(r)
    <3>1. change[y] # NoChange /\ y # x
      BY Zenon, <1>0, <1>6, <2>1, NoChangeFacts
    <3>2. change'[y] = change[y]
      BY Zenon, <1>1, <3>1
    <3>3. change[y].op # "none"
      BY Zenon, <3>1 DEF TreeInv, ChangesBorn, IsChange
    <3>4. \A z \in Executors : change'[z].of = r => z = y
      BY Zenon, <2>1, <3>2, <3>3 DEF Apart
    <3>5. Listing(r)' = After(change'[y], m_children'[r])
      BY Zenon, <2>1, <3>2, <3>4, ListingOne DEF Listing
    <3>6. Listing(r) = After(change[y], m_children[r])
      BY Zenon, <2>1, <3>3, ListingOf
    <3> QED BY Zenon, <1>3, <1>6, <3>2, <3>5, <3>6
  <2>2. CASE \A y \in Executors : change[y].of # r
    <3>1. \A y \in Executors : change'[y].of # r
      BY Zenon, <1>1, <2>2, NoChangeFacts
    <3>2. Listing(r)' = m_children'[r]
      BY Zenon, <3>1 DEF Listing
    <3> QED BY Zenon, <1>3, <1>6, <2>2, <3>2, ListingNone
  <2> QED BY Zenon, <2>1, <2>2
<1> QED BY Zenon, <1>3, <1>4, <1>5, <1>6

(* A list that holds q and nothing twice holds q at one place.             *)
LEMMA ListedAtOnePlace ==
    ASSUME NEW v \in Seq(Pids), NEW q, Lists(v, q), Distinct(v)
    PROVE  ListedOnce(v, q)
<1>1. DOMAIN v = 1 .. Len(v)
  OBVIOUS
<1> QED BY Zenon, <1>1 DEF Lists, Distinct, ListedOnce

(* The invariant says what is to be shown.                                 *)
LEMMA FamilyImplies == FamilyInv => NobodyOrphaned
<1> SUFFICES ASSUME FamilyInv PROVE NobodyOrphaned
  OBVIOUS
<1> USE DEF FamilyInv
<1>1. TypeOK
  <2>1. \A p \in Pids : m_parent[p] = NoProcess => p = InitPid \/ m_state[p] = "None"
    BY Zenon, PidFacts DEF TreeInv, OldFirst, Kin, Born
  <2> QED
    BY Zenon, <2>1 DEF TypeOK, TreeInv, Typed, TreeOK, SignalsOK, CallsOK, ExecOK, ChangeOK,
         RestOK, ExecType
<1>2. ReaperIsInit
  BY Zenon, ChainsEnd
<1>3. StoppedIsWaitable
  BY Zenon DEF TreeInv, DeadWaitable, StoppedIsWaitable
<1>4. ASSUME serial, presses = 0, NEW q \in Pids \ {InitPid}, Unreaped(q)
      PROVE  ListedOnce(Listing(m_parent[q]), q) /\ m_state[m_parent[q]] = "Running"
  <2> DEFINE p == m_parent[q]
  <2>1. p \in Pids /\ Born(p)
    BY Zenon, <1>4, ParentBorn DEF Kin, Unreaped, Born
  <2>2. Lists(Listing(p), q) /\ Distinct(Listing(p)) /\ Apart
    BY Zenon, <1>4, <2>1 DEF Family, HeldListed, ListsHeld, OwnChange
  <2>3. Listing(p) # <<>>
    BY Zenon, <2>2, EmptyList
  <2>4. m_state[p] # "Zombie"
    BY Zenon, <1>4, <2>1, <2>3 DEF Family, OwnExit
  <2>5. m_state[p] = "Running"
    BY Zenon, <2>1, <2>4 DEF TreeInv, Typed, TreeOK, Born
  <2> QED BY Zenon, <2>1, <2>2, <2>5, ListingSeq, ListedAtOnePlace
<1>5. ASSUME serial, presses = 0, NEW q \in Pids \ {InitPid}, ~Unreaped(q), NEW p \in Pids,
             exec[p].at # "adopt"
      PROVE  ~Lists(Listing(p), q)
  BY Zenon, <1>5 DEF Family, ListsHeld, Held
<1> QED BY Zenon, <1>1, <1>2, <1>3, <1>4, <1>5 DEF NobodyOrphaned, NoOrphan

(* Init satisfies the second half.                                         *)
LEMMA FamilyInit == Init => Family
<1> SUFFICES ASSUME Init PROVE Family
  OBVIOUS
<1> USE PidFacts DEF Init
<1>1. NoExit.at = "no" /\ NoExit.todo = <<>>
  BY DEF NoExit
<1>10. \A p \in Pids : Listing(p) = <<>>
  BY Zenon, NoChangeFacts, ListingNone
<1>11. OwnChange
  BY Zenon, NoChangeFacts DEF OwnChange, Apart
<1>2. OwnExit /\ NewChild
  BY Zenon, <1>1, <1>10 DEF OwnExit, NewChild
<1>3. ListsHeld
  BY Zenon, <1>1, <1>10, EmptyList DEF ListsHeld
<1>4. HeldListed
  BY Zenon DEF HeldListed, Unreaped
<1> QED BY Zenon, <1>11, <1>2, <1>3, <1>4 DEF Family

(* A step that leaves the lists and the exits.                             *)
LEMMA ListsSame ==
    ASSUME TreeInv, Family, UNCHANGED <<m_state, m_parent, exec, reaped>>,
           \A r \in Pids : Listing(r)' = Listing(r),
           \A r \in Pids : exec[r].at # "no" \/ m_state[r] = "Zombie" => pc'[r] = pc[r]
    PROVE  OwnExit' /\ ListsHeld' /\ HeldListed'
<1>1. OwnExit'
  BY Zenon DEF Family, OwnExit
<1>2. \A q, p : Held(q, p)' <=> Held(q, p)
  BY Zenon DEF Held, Unreaped
<1>3. ListsHeld'
  BY Zenon, <1>2 DEF Family, ListsHeld
<1>4. HeldListed'
  <2> SUFFICES ASSUME NEW q \in Pids, q # InitPid, Unreaped(q)
               PROVE  Lists(Listing(m_parent[q])', q)
    BY Zenon DEF Family, HeldListed, Unreaped
  <2>1. m_parent[q] \in Pids
    BY Zenon, ParentBorn DEF Unreaped, Kin, Born
  <2>2. Listing(m_parent[q])' = Listing(m_parent[q])
    BY Zenon, <2>1
  <2> QED BY Zenon, <2>2 DEF Family, HeldListed
<1> QED BY Zenon, <1>1, <1>3, <1>4

(* A step that leaves the changes to those that make them.                 *)
LEMMA OwnKept ==
    ASSUME Family, Apart', UNCHANGED <<m_children, change>>,
           \A x \in Executors : change[x].op \in {"append", "erase"} => pc'[x] = pc[x],
           \A x \in Executors : change[x].op = "resize" => exec'[x].at = exec[x].at
    PROVE  OwnChange'
BY Zenon DEF Family, OwnChange

(* A step that leaves what the family is made of.                          *)
LEMMA FamilyKept ==
    ASSUME TreeInv, Family, UNCHANGED <<m_state, m_parent, m_children, exec, change, reaped, pc, arg>>
    PROVE  Family'
<1>1. OwnExit' /\ ListsHeld' /\ HeldListed'
  BY Zenon, ListingKept, ListsSame
<1>2. NewChild'
  BY Zenon DEF Family, NewChild
<1>3. OwnChange'
  BY Zenon DEF Family, OwnChange, Apart
<1> QED BY Zenon, <1>1, <1>2, <1>3 DEF Family

(* An executor that is in the middle of nothing changes nothing.           *)
LEMMA NotChanging ==
    ASSUME TreeInv, Family, NEW p \in Pids, pc[p] \notin {"link", "erase"}, exec[p].at # "adopt"
    PROVE  change[p] = NoChange
<1> SUFFICES ASSUME change[p] # NoChange PROVE FALSE
  OBVIOUS
<1>1. change[p].op # "none" /\ change[p] \in Changes
  BY Zenon, PidFacts DEF TreeInv, Typed, ChangeOK, ChangesBorn, IsChange
<1>2. change[p].op \in {"append", "resize", "erase"}
  BY Zenon, <1>1 DEF Changes
<1> QED BY Zenon, <1>2, PidFacts DEF Family, OwnChange

(* Only its own thread changes the vector of a process other than init.    *)
LEMMA NotChanged ==
    ASSUME TreeInv, NEW p \in Pids, p # InitPid, change[p] = NoChange
    PROVE  \A x \in Executors : change[x].of # p
<1> SUFFICES ASSUME NEW x \in Executors, change[x].of = p PROVE FALSE
  OBVIOUS
<1>1. change[x] # NoChange
  BY Zenon, NoChangeFacts
<1>2. change[x].of \in {InitPid, x}
  BY Zenon, <1>1 DEF TreeInv, ChangesBorn, IsChange
<1> QED BY Zenon, <1>1, <1>2

(* Only init's list is changed by others.                                  *)
LEMMA ListingOwn ==
    ASSUME TreeInv, NEW p \in Pids, p # InitPid, change[p] = NoChange
    PROVE  Listing(p) = m_children[p]
BY Zenon, NotChanged, ListingNone


(* Only a thread, not the keyboard interrupt, forks or waits.              *)
LEMMA ChangerIsThread ==
    ASSUME TreeInv, NEW x \in Executors, change[x].op \in {"append", "erase"}
    PROVE  x \in Pids
<1>1. change[x].op # "resize" /\ change[x].op # "none"
  OBVIOUS
<1>2. change[x] # NoChange
  BY Zenon, <1>1, NoChangeFacts
<1> QED BY Zenon, <1>1, <1>2 DEF TreeInv, ChangesBorn, IsChange

(* The change that begins is made where it is made.                        *)
LEMMA OwnBegin ==
    ASSUME TreeInv, Family, Apart', NEW x \in Executors, NEW c \in Changes,
           change' = [change EXCEPT ![x] = c], m_children' = m_children,
           \A y \in Pids : y # x => pc'[y] = pc[y],
           \A y \in Executors : y # x => exec'[y] = exec[y],
           c.op = "append" => pc'[x] = "link",
           c.op = "erase" => pc'[x] = "erase" /\ c.at \in 1 .. Len(m_children[x]),
           c.op = "resize" => exec'[x].at = "adopt" /\ c.at = Len(m_children[InitPid]) + 1
    PROVE  OwnChange'
<1>1. change'[x] = c /\ \A y \in Executors : y # x => change'[y] = change[y]
  BY Zenon DEF TreeInv, Typed, ChangeOK
<1>2. ASSUME NEW y \in Executors
      PROVE  /\ change'[y].op = "append" => pc'[y] = "link"
             /\ change'[y].op = "erase" =>
                   pc'[y] = "erase" /\ change'[y].at \in 1 .. Len(m_children'[y])
             /\ change'[y].op = "resize" =>
                   exec'[y].at = "adopt" /\ change'[y].at = Len(m_children'[InitPid]) + 1
  <2>1. CASE y = x
    BY Zenon, <1>1, <2>1
  <2>2. CASE y # x
    <3>1. change'[y] = change[y] /\ exec'[y] = exec[y]
      BY Zenon, <1>1, <2>2
    <3>2. change[y].op \in {"append", "erase"} => pc'[y] = pc[y]
      BY Zenon, <2>2, ChangerIsThread
    <3>3. (change[y].op = "append" \/ change[y].op = "erase") => pc'[y] = pc[y]
      BY <3>2
    <3> QED BY Zenon, <3>1, <3>3 DEF Family, OwnChange
  <2> QED BY Zenon, <2>1, <2>2
<1> QED BY Zenon, <1>2 DEF OwnChange

(* The change that ends is no other's matter.                              *)
LEMMA OwnEnd ==
    ASSUME TreeInv, Family, Apart', NEW x \in Executors, ChangeEnd(x),
           exec' = exec, \A y \in Pids : y # x => pc'[y] = pc[y]
    PROVE  OwnChange'
<1>1. /\ change'[x] = NoChange /\ \A y \in Executors : y # x => change'[y] = change[y]
      /\ m_children' = [m_children EXCEPT ![change[x].of] = After(change[x], @)]
  BY Zenon DEF ChangeEnd, TreeInv, Typed, ChangeOK
<1>2. \A r \in Pids : r # change[x].of => m_children'[r] = m_children[r]
  BY Zenon, <1>1 DEF TreeInv, Typed, TreeOK
<1>3. ASSUME NEW y \in Executors
      PROVE  /\ change'[y].op = "append" => pc'[y] = "link"
             /\ change'[y].op = "erase" =>
                   pc'[y] = "erase" /\ change'[y].at \in 1 .. Len(m_children'[y])
             /\ change'[y].op = "resize" =>
                   exec'[y].at = "adopt" /\ change'[y].at = Len(m_children'[InitPid]) + 1
  <2>1. CASE y = x \/ change[y] = NoChange
    <3>1. change'[y] = NoChange
      BY Zenon, <1>1, <2>1
    <3> QED BY Zenon, <3>1, NoChangeFacts
  <2>2. CASE y # x /\ change[y] # NoChange
    <3>1. change'[y] = change[y]
      BY Zenon, <1>1, <2>2
    <3>2. /\ change[y].of \in Pids /\ change[y].op # "none"
          /\ IF change[y].op = "resize" THEN change[y].of = InitPid ELSE change[y].of = y
      BY Zenon, <2>2 DEF TreeInv, ChangesBorn, IsChange
    <3>3. change[y].of # change[x].of
      BY Zenon, <2>2, <3>2 DEF Family, OwnChange, Apart
    <3>4. m_children'[change[y].of] = m_children[change[y].of]
      BY Zenon, <1>2, <3>2, <3>3
    <3>5. CASE change[y].op = "resize"
      <4>1. m_children'[InitPid] = m_children[InitPid]
        BY Zenon, <3>2, <3>4, <3>5
      <4>2. change[y].op \notin {"append", "erase"}
        BY <3>5
      <4> QED BY Zenon, <3>1, <3>5, <4>1, <4>2 DEF Family, OwnChange
    <3>6. CASE change[y].op # "resize"
      <4>1. m_children'[y] = m_children[y]
        BY Zenon, <3>2, <3>4, <3>6
      <4>2. pc'[y] = pc[y]
        BY Zenon, <2>2, <3>2, <3>6
      <4> QED BY Zenon, <3>1, <3>6, <4>1, <4>2 DEF Family, OwnChange
    <3> QED BY Zenon, <3>5, <3>6
  <2> QED BY Zenon, <2>1, <2>2
<1> QED BY Zenon, <1>3 DEF OwnChange

(* A thread that is not in exit() executes none.                           *)
LEMMA NotExiting ==
    ASSUME Family, NEW p \in Pids, pc[p] # "exit"
    PROVE  exec[p].at = "no" /\ exec[p].at # "adopt"
<1>1. exec[p].at = "no"
  BY Zenon DEF Family, OwnExit
<1> QED BY <1>1

(* fork() adds the child to the list of its parent.                        *)
LEMMA FamilyFork ==
    ASSUME TreeInv, Family, Apart', NEW p \in Pids, NEW q \in Pids, fork(p, q)
    PROVE  Family'
<1> USE DEF TreeInv, Family
<1>1. /\ m_state' = [m_state EXCEPT ![q] = "Running"]
      /\ m_parent' = [m_parent EXCEPT ![q] = p]
      /\ m_children' = m_children /\ PushBegin(p, p, q, "append")
      /\ ~Born(q) /\ pc[p] = "user"
      /\ pc' = [pc EXCEPT ![p] = "link"] /\ arg' = [arg EXCEPT ![p] = q]
      /\ exec' = exec /\ reaped' = reaped
  BY Zenon DEF fork, Runs, GotoWith, Born
<1>2. pc[p] \notin {"exit", "yield", "new", "link", "start", "erase"} /\ pc[p] \notin {"link", "erase"}
  BY <1>1
<1>3. Born(p) /\ p # q /\ q # InitPid /\ pc[q] = "new" /\ reaped[q] = 0
  BY Zenon, <1>1, <1>2, PidFacts DEF CallsBorn, OldFirst, Born
<1>4. exec[p].at = "no" /\ exec[p].at # "adopt"
  BY Zenon, <1>2, NotExiting
<1>40. change[p] = NoChange /\ Apart /\ p \in Executors
  BY Zenon, <1>2, <1>4, PidFacts, NotChanging DEF OwnChange
<1>41. PICK c \in Changes : /\ change' = [change EXCEPT ![p] = c]
                            /\ c.op = "append" /\ c.of = p /\ c.child = q
                            /\ c.at = Len(m_children[p]) + 1
  <2>1. "append" \in {"append", "resize"}
    OBVIOUS
  <2> HIDE DEF TreeInv, Family
  <2> QED BY <1>1, <1>40, <2>1, PushFacts
<1>42. c.op \notin {"none", "erase", "resize"}
  BY <1>41
<1>43. /\ Listing(p)' = Append(Listing(p), q)
       /\ \A r \in Pids : r # p => Listing(r)' = Listing(r)
  <2> HIDE DEF TreeInv, Family
  <2>1. /\ Listing(p) = m_children[p] /\ Listing(p)' = After(c, m_children[p])
        /\ \A r \in Pids : r # p => Listing(r)' = Listing(r)
    BY Zenon, <1>1, <1>40, <1>41, <1>42, ListingBegin
  <2>2. After(c, m_children[p]) = Append(m_children[p], q)
    BY Zenon, <1>41, AfterCases
  <2> QED BY Zenon, <2>1, <2>2
<1>5. /\ m_state'[q] = "Running" /\ m_parent'[q] = p /\ pc'[p] = "link" /\ arg'[p] = q
      /\ \A r \in Pids : r # q => m_state'[r] = m_state[r] /\ m_parent'[r] = m_parent[r]
      /\ \A r \in Pids : r # p => pc'[r] = pc[r] /\ arg'[r] = arg[r] /\ Listing(r)' = Listing(r)
      /\ Listing(p)' = Append(Listing(p), q)
  <2>1. m_state'[q] = "Running" /\ \A r \in Pids : r # q => m_state'[r] = m_state[r]
    BY Zenon, <1>1 DEF Typed, TreeOK
  <2>2. m_parent'[q] = p /\ \A r \in Pids : r # q => m_parent'[r] = m_parent[r]
    BY Zenon, <1>1 DEF Typed, TreeOK
  <2>3. /\ Listing(p)' = Append(Listing(p), q)
        /\ \A r \in Pids : r # p => Listing(r)' = Listing(r)
    BY Zenon, <1>43
  <2>4. /\ pc'[p] = "link" /\ arg'[p] = q
        /\ \A r \in Pids : r # p => pc'[r] = pc[r] /\ arg'[r] = arg[r]
    BY Zenon, <1>1 DEF Typed, CallsOK
  <2> QED BY Zenon, <2>1, <2>2, <2>3, <2>4
<1>44. OwnChange'
  <2>1. /\ pc'[p] = "link"
        /\ \A y \in Pids : y # p => pc'[y] = pc[y]
        /\ \A y \in Executors : y # p => exec'[y] = exec[y]
    BY Zenon, <1>1 DEF Typed, CallsOK
  <2> HIDE DEF TreeInv, Family
  <2> QED BY Zenon, <1>1, <1>40, <1>41, <1>42, <2>1, OwnBegin
<1>6. Listing(p) \in Seq(Pids) /\ \A r \in Pids : ~Lists(Listing(r), q)
  <2> HIDE DEF TreeInv, Family
  <2> QED BY Zenon, <1>1, <1>40, ListingSeq DEF Kin
<1>7. /\ \A s : Lists(Listing(p)', s) <=> Lists(Listing(p), s) \/ s = q
      /\ Distinct(Listing(p)')
  <2>1. Distinct(Listing(p))
    BY Zenon DEF ListsHeld
  <2> HIDE DEF TreeInv, Family
  <2>2. ~Lists(Listing(p), q)
    BY Zenon, <1>6
  <2>3. /\ \A s : Lists(Append(Listing(p), q), s) <=> Lists(Listing(p), s) \/ s = q
        /\ Distinct(Append(Listing(p), q))
    BY Zenon, <1>6, <2>1, <2>2, AppendList
  <2> QED BY Zenon, <1>5, <2>3
<1>8. OwnExit'
  <2>1. exec[p].at \notin {"zombie", "kill"} /\ m_state'[q] # "Zombie"
    BY <1>4, <1>5
  <2>2. m_state[p] # "Zombie"
    BY Zenon, <1>2 DEF OwnExit
  <2>3. ASSUME NEW r \in Pids
        PROVE  /\ exec[r].at # "no" => pc'[r] = "exit" /\ exec[r].pid = r
               /\ m_state'[r] = "Zombie" => pc'[r] \in {"exit", "yield"} /\ Listing(r)' = <<>>
               /\ exec[r].at \in {"zombie", "kill"} => Listing(r)' = <<>>
    <3>1. CASE r = p
      BY Zenon, <3>1, <1>3, <1>4, <1>5, <2>1, <2>2
    <3>2. CASE r = q
      BY Zenon, <3>2, <1>3, <1>5, <2>1 DEF OwnExit
    <3>3. CASE r # p /\ r # q
      <4>1. m_state'[r] = m_state[r] /\ pc'[r] = pc[r] /\ Listing(r)' = Listing(r)
        BY Zenon, <3>3, <1>5
      <4> QED BY Zenon, <4>1 DEF OwnExit
    <3> QED BY Zenon, <3>1, <3>2, <3>3
  <2> QED BY Zenon, <1>1, <2>3 DEF OwnExit
<1>9. NewChild'
  <2> SUFFICES ASSUME NEW r \in Pids, pc'[r] \in {"link", "start"}
               PROVE  pc'[arg'[r]] = "new" /\ m_parent'[arg'[r]] = r
    BY Zenon DEF NewChild
  <2>1. CASE r = p
    BY Zenon, <2>1, <1>3, <1>5
  <2>2. CASE r # p
    <3>1. pc[r] \in {"link", "start"} /\ arg'[r] = arg[r]
      BY Zenon, <2>2, <1>5
    <3>10. pc[r] \in {"link", "start", "console"}
      BY <3>1
    <3>2. arg[r] \in Pids /\ Born(arg[r]) /\ pc[arg[r]] = "new" /\ m_parent[arg[r]] = r
      BY Zenon, <3>1, <3>10 DEF CallsBorn, NewChild
    <3>3. arg[r] # q /\ arg[r] # p
      BY Zenon, <3>2, <1>1, <1>2
    <3> QED BY Zenon, <3>1, <3>2, <3>3, <1>5
  <2> QED BY Zenon, <2>1, <2>2
<1>10. /\ Held(q, p)'
       /\ \A s, r \in Pids : Held(s, r) => Held(s, r)'
       /\ \A s \in Pids : s # q => (Unreaped(s)' <=> Unreaped(s))
  <2>1. "Running" # "None"
    OBVIOUS
  <2>2. Held(q, p)'
    BY Zenon, <1>1, <1>3, <1>5, <2>1 DEF Held, Unreaped
  <2>3. \A s \in Pids : s # q => (Unreaped(s)' <=> Unreaped(s))
    BY Zenon, <1>1, <1>5 DEF Unreaped
  <2>4. ~Unreaped(q)
    BY Zenon, <1>1 DEF Unreaped, Born
  <2>5. \A s, r \in Pids : Held(s, r) => Held(s, r)'
    BY Zenon, <2>3, <2>4, <1>5 DEF Held
  <2> QED BY Zenon, <2>2, <2>3, <2>5
<1>11. ListsHeld'
  <2>1. \A r \in Pids : Distinct(Listing(r)') /\ Distinct(exec'[r].todo)
    BY Zenon, <1>1, <1>5, <1>7 DEF ListsHeld
  <2>2. \A r, s \in Pids : exec'[r].at # "adopt" /\ Lists(Listing(r)', s) => Held(s, r)'
    BY Zenon, <1>1, <1>5, <1>7, <1>10 DEF ListsHeld
  <2>3. \A r, s \in Pids : exec'[r].at = "adopt" /\ Lists(exec'[r].todo, s) => Held(s, r)'
    BY Zenon, <1>1, <1>10 DEF ListsHeld
  <2> QED BY Zenon, <2>1, <2>2, <2>3 DEF ListsHeld
<1>12. HeldListed'
  <2> SUFFICES ASSUME NEW s \in Pids, s # InitPid, Unreaped(s)'
               PROVE  /\ Lists(Listing(m_parent[s])', s)
                      /\ exec[m_parent'[s]].at = "adopt" => Lists(exec[m_parent'[s]].todo, s)
    BY Zenon, <1>1 DEF HeldListed
  <2>1. CASE s = q
    BY Zenon, <2>1, <1>4, <1>5, <1>7
  <2>2. CASE s # q
    <3>1. Unreaped(s) /\ m_parent'[s] = m_parent[s]
      BY Zenon, <2>2, <1>5, <1>10
    <3>2. m_parent[s] \in Pids
      BY Zenon, <3>1, ParentBorn DEF Unreaped, Kin, Born
    <3>3. /\ Lists(Listing(m_parent[s]), s)
          /\ exec[m_parent[s]].at = "adopt" => Lists(exec[m_parent[s]].todo, s)
      BY Zenon, <3>1 DEF HeldListed
    <3>4. Lists(Listing(m_parent[s])', s)
      BY Zenon, <3>2, <3>3, <1>5, <1>7
    <3> QED BY Zenon, <3>1, <3>3, <3>4
  <2> QED BY Zenon, <2>1, <2>2
<1> QED BY Zenon, <1>44, <1>8, <1>9, <1>11, <1>12

(* The other steps of a thread that leave the lists: the child that        *)
(* fork() starts was new.                                                  *)
LEMMA FamilySyscall ==
    ASSUME TreeInv, Family, Apart', NEW p \in Pids, NEW q \in Pids \cup {AnyChild},
           fork_start(p) \/ fork_console(p) \/ waitpid(p, q)
    PROVE  Family'
<1>1. UNCHANGED <<m_state, m_parent, m_children, change, reaped, exec>>
  BY Zenon DEF fork_start, fork_console, waitpid, Tree
<1>2. CallsOK
  BY Zenon DEF TreeInv, Typed
<1>3. pc[p] \in {"start", "console", "user"}
  BY Zenon DEF fork_start, fork_console, waitpid, Runs
<1>4. pc[p] # "exit" /\ pc[p] \notin {"exit", "yield"} /\ pc[p] # "new" /\ pc[p] \notin {"link", "erase"}
  BY <1>3
<1>5. exec[p].at = "no" /\ m_state[p] # "Zombie"
  BY Zenon, <1>4, NotExiting DEF Family, OwnExit
<1>6. pc[p] = "start" => arg[p] \in Pids /\ pc[arg[p]] = "new" /\ m_parent[arg[p]] = p
  <2> SUFFICES ASSUME pc[p] = "start"
               PROVE  arg[p] \in Pids /\ pc[arg[p]] = "new" /\ m_parent[arg[p]] = p
    OBVIOUS
  <2>1. pc[p] \in {"link", "start"} /\ pc[p] \in {"link", "start", "console"}
    OBVIOUS
  <2> QED BY Zenon, <2>1 DEF TreeInv, CallsBorn, Family, NewChild
<1> DEFINE c == IF fork_start(p) THEN arg[p] ELSE p
<1>7. /\ c \in Pids /\ exec[c].at = "no" /\ m_state[c] # "Zombie" /\ pc[c] \notin {"link", "erase"}
      /\ \A r \in Pids : r # p => arg'[r] = arg[r]
      /\ \A r \in Pids : pc'[r] = pc[r] \/ (r \in {p, c} /\ pc'[r] \notin {"link", "start"})
      /\ c # p => m_parent[c] = p
  <2>1. CASE fork_start(p)
    <3>1. /\ pc[p] = "start" /\ c = arg[p] /\ arg' = arg
          /\ pc' = [pc EXCEPT ![p] = "console", ![arg[p]] = "user"]
      BY Zenon, <2>1 DEF fork_start, Runs
    <3>2. pc[c] \notin {"exit", "yield"} /\ pc[c] # "exit" /\ pc[c] \notin {"link", "erase"}
      BY <1>6, <3>1
    <3>3. exec[c].at = "no" /\ m_state[c] # "Zombie"
      BY Zenon, <1>6, <3>1, <3>2, NotExiting DEF Family, OwnExit
    <3>4. \A r \in Pids : pc'[r] = pc[r] \/ (r \in {p, c} /\ pc'[r] \in {"console", "user"})
      BY Zenon, <1>2, <3>1 DEF CallsOK
    <3>5. \A r \in Pids : pc'[r] = pc[r] \/ (r \in {p, c} /\ pc'[r] \notin {"link", "start"})
      BY <3>4
    <3> QED BY Zenon, <1>6, <3>1, <3>2, <3>3, <3>5
  <2>2. CASE fork_console(p) \/ waitpid(p, q)
    <3>1. ~fork_start(p)
      BY <2>2 DEF fork_start, fork_console, waitpid, Runs
    <3>2. /\ \A r \in Pids : r # p => arg'[r] = arg[r] /\ pc'[r] = pc[r]
          /\ pc'[p] \in {"user", "wait"}
      BY Zenon, <1>2, <2>2 DEF fork_console, waitpid, GotoWith, CallsOK
    <3>3. pc'[p] \notin {"link", "start"}
      BY <3>2
    <3> QED BY Zenon, <1>4, <1>5, <3>1, <3>2, <3>3
  <2> QED BY Zenon, <2>1, <2>2
<1> HIDE DEF c
<1>8. OwnExit' /\ ListsHeld' /\ HeldListed'
  <2>1. \A r \in Pids : exec[r].at # "no" \/ m_state[r] = "Zombie" => pc'[r] = pc[r]
    BY Zenon, <1>5, <1>7
  <2> QED BY Zenon, <1>1, <2>1, ListingKept, ListsSame
<1>9. NewChild'
  <2> SUFFICES ASSUME NEW r \in Pids, pc'[r] \in {"link", "start"}
               PROVE  pc'[arg'[r]] = "new" /\ m_parent'[arg'[r]] = r
    BY Zenon DEF NewChild
  <2>1. pc[r] \in {"link", "start"} /\ r # p
    <3>1. pc'[p] \notin {"link", "start"}
      BY <1>2, <1>6 DEF fork_start, fork_console, waitpid, GotoWith, CallsOK
    <3> QED BY Zenon, <3>1, <1>7
  <2>10. pc[r] \in {"link", "start", "console"}
    BY <2>1
  <2>2. arg'[r] = arg[r] /\ arg[r] \in Pids /\ pc[arg[r]] = "new" /\ m_parent[arg[r]] = r
    BY Zenon, <1>7, <2>1, <2>10 DEF Family, NewChild, TreeInv, CallsBorn
  <2>3. arg[r] # p /\ arg[r] # c
    BY Zenon, <2>1, <2>2, <1>4, <1>7
  <2> QED BY Zenon, <1>1, <1>7, <2>2, <2>3
<1>10. OwnChange'
  <2>1. ASSUME NEW x \in Executors, change[x].op \in {"append", "erase"} PROVE pc'[x] = pc[x]
    <3>1. x \in Pids
      BY Zenon, <2>1, ChangerIsThread
    <3>2. pc[x] \in {"link", "erase"}
      BY Zenon, <2>1 DEF Family, OwnChange
    <3> QED BY Zenon, <3>1, <3>2, <1>4, <1>7
  <2> QED BY Zenon, <1>1, <2>1, OwnKept
<1> QED BY Zenon, <1>8, <1>9, <1>10 DEF Family


(* The end of a change of fork() or waitpid() keeps the family.            *)
LEMMA FamilyLink ==
    ASSUME TreeInv, Family, Apart', NEW p \in Pids, fork_link(p) \/ waitpid_erased(p)
    PROVE  Family'
<1>1. /\ ChangeEnd(p) /\ pc[p] \in {"link", "erase"}
      /\ UNCHANGED <<m_state, m_parent, exec, reaped>>
  BY Zenon DEF fork_link, waitpid_erased, Runs
<1>2. \A r \in Pids : r # p => pc'[r] = pc[r] /\ arg'[r] = arg[r]
  BY Zenon DEF fork_link, waitpid_erased, Goto, GotoWith, TreeInv, Typed, CallsOK
<1>3. pc[p] \notin {"exit", "yield", "new"} /\ pc[p] # "exit" /\ pc[p] # "new"
  BY <1>1
<1>4. exec[p].at = "no" /\ m_state[p] # "Zombie"
  BY Zenon, <1>3, NotExiting DEF Family, OwnExit
<1>5. \A r \in Pids : Listing(r)' = Listing(r)
  BY Zenon, <1>1, PidFacts, ListingEnd DEF Family, OwnChange
<1>6. \A r \in Pids : exec[r].at # "no" \/ m_state[r] = "Zombie" => pc'[r] = pc[r]
  BY Zenon, <1>2, <1>4
<1>7. OwnExit' /\ ListsHeld' /\ HeldListed'
  BY Zenon, <1>1, <1>5, <1>6, ListsSame
<1>8. OwnChange'
  BY Zenon, <1>1, <1>2, PidFacts, OwnEnd
<1>9. NewChild'
  <2> SUFFICES ASSUME NEW r \in Pids, pc'[r] \in {"link", "start"}
               PROVE  pc'[arg'[r]] = "new" /\ m_parent[arg'[r]] = r
    BY Zenon, <1>1 DEF NewChild
  <2>1. pc[r] \in {"link", "start"} /\ arg'[r] = arg[r]
    <3>1. CASE r # p
      BY Zenon, <1>2, <3>1
    <3>2. CASE r = p /\ fork_link(p)
      BY Zenon, <3>2 DEF fork_link, Runs, Goto
    <3>3. CASE r = p /\ waitpid_erased(p)
      <4>1. pc'[p] = "user"
        BY Zenon, <3>3 DEF waitpid_erased, GotoWith, TreeInv, Typed, CallsOK
      <4> QED BY <4>1, <3>3
    <3> QED BY Zenon, <3>1, <3>2, <3>3
  <2>10. pc[r] \in {"link", "start", "console"}
    BY <2>1
  <2>2. arg[r] \in Pids /\ pc[arg[r]] = "new" /\ m_parent[arg[r]] = r
    BY Zenon, <2>1, <2>10 DEF Family, NewChild, TreeInv, CallsBorn
  <2>3. arg[r] # p
    BY Zenon, <2>2, <1>3
  <2> QED BY Zenon, <1>2, <2>1, <2>2, <2>3
<1> QED BY Zenon, <1>7, <1>8, <1>9 DEF Family

(* The end of push_back() in adopt() keeps the family.                     *)
LEMMA FamilyAdopted ==
    ASSUME TreeInv, Family, Apart', NEW x \in Executors, adopt_end(x)
    PROVE  Family'
<1>1. ChangeEnd(x) /\ UNCHANGED <<m_state, m_parent, exec, reaped, pc, arg>>
  BY Zenon DEF adopt_end, Calls
<1>2. \A r \in Pids : Listing(r)' = Listing(r)
  BY Zenon, <1>1, ListingEnd DEF Family, OwnChange
<1>3. OwnExit' /\ ListsHeld' /\ HeldListed'
  BY Zenon, <1>1, <1>2, ListsSame
<1>4. OwnChange'
  BY Zenon, <1>1, OwnEnd
<1>5. NewChild'
  BY Zenon, <1>1 DEF Family, NewChild
<1> QED BY Zenon, <1>3, <1>4, <1>5 DEF Family

(* waitpid() takes a zombie off the one list that has it.                  *)
LEMMA FamilyScan ==
    ASSUME TreeInv, Family, Apart', NEW p \in Pids, waitpid_scan(p)
    PROVE  Family'
<1>1. /\ pc[p] = "wait"
      /\ m_state' = m_state /\ m_parent' = m_parent /\ m_children' = m_children /\ exec' = exec
  BY Zenon DEF waitpid_scan, Tree, Runs
<1>2. /\ pc'[p] \in {"user", "erase"}
      /\ \A r \in Pids : r # p => pc'[r] = pc[r] /\ arg'[r] = arg[r]
  BY Zenon DEF waitpid_scan, Goto, GotoWith, TreeInv, Typed, CallsOK
<1>3. /\ pc[p] \notin {"exit", "yield", "new", "start"} /\ pc[p] \notin {"link", "erase"}
      /\ pc'[p] \notin {"link", "start"}
  BY <1>1, <1>2
<1>4. exec[p].at = "no" /\ exec[p].at # "adopt" /\ m_state[p] # "Zombie"
  BY Zenon, <1>3, NotExiting DEF Family, OwnExit
<1>5. exec[p].at \notin {"zombie", "kill"}
  BY <1>4
<1>6. /\ change[p] = NoChange /\ Apart /\ p \in Executors
      /\ Listing(p) \in Seq(Pids) /\ Distinct(Listing(p))
  <2>1. change[p] = NoChange /\ Apart /\ p \in Executors
    BY Zenon, <1>3, <1>4, PidFacts, NotChanging DEF Family, OwnChange
  <2> QED BY Zenon, <2>1, ListingSeq DEF Family, ListsHeld
<1> DEFINE Taken(t) == /\ \A r \in Pids : r # p => Listing(r)' = Listing(r)
                       /\ Distinct(Listing(p)')
                       /\ \A s \in Pids : Lists(Listing(p)', s) => Lists(Listing(p), s) /\ s # t
                       /\ \A s \in Pids : Lists(Listing(p), s) /\ s # t => Lists(Listing(p)', s)
                       /\ \A s \in Pids : s # t => reaped'[s] = reaped[s]
                       /\ t \in Pids => reaped'[t] # 0 /\ Lists(Listing(p), t)
<1>7. \E t \in Pids \cup {NoProcess} : Taken(t) /\ OwnChange'
  <2>1. CASE UNCHANGED <<change, reaped>>
    <3>1. \A r \in Pids : Listing(r)' = Listing(r)
      BY Zenon, <1>1, <2>1, ListingKept
    <3>2. Taken(NoProcess)
      BY Zenon, <2>1, <3>1, <1>6, PidFacts
    <3>3. OwnChange'
      <4>1. \A y \in Executors : change[y].op \in {"append", "erase"} => pc'[y] = pc[y]
        <5>1. change[p].op \notin {"append", "erase"}
          BY <1>6, NoChangeFacts
        <5> QED BY Zenon, <5>1, <1>2, ChangerIsThread
      <4> QED BY Zenon, <1>1, <2>1, <4>1, OwnKept
    <3> QED BY Zenon, <3>2, <3>3
  <2>2. ASSUME NEW i \in DOMAIN m_children[p],
               change' = [change EXCEPT ![p] = [op |-> "erase", of |-> p, at |-> i,
                               child |-> m_children[p][i], grows |-> FALSE]],
               reaped' = [reaped EXCEPT ![m_children[p][i]] = @ + 1], Goto(p, "erase")
        PROVE  \E t \in Pids : Taken(t) /\ OwnChange'
    <3>1. m_children[p] \in Seq(Pids)
      BY Zenon DEF TreeInv, Typed, TreeOK
    <3>2. i \in 1 .. Len(m_children[p]) /\ i \in Nat /\ m_children[p][i] \in Pids
      BY <2>2, <3>1
    <3>3. PICK t \in Pids : t = m_children[p][i]
      BY Zenon, <3>2
    <3>4. PICK c \in Changes : /\ change' = [change EXCEPT ![p] = c]
                               /\ c.op = "erase" /\ c.of = p /\ c.at = i /\ c.child = t
      <4>1. [op |-> "erase", of |-> p, at |-> i, child |-> t, grows |-> FALSE] \in Changes
        BY <3>2 DEF Changes
      <4> QED BY <2>2, <3>3, <4>1
    <3>5. c.op \notin {"none", "append", "resize"}
      BY <3>4
    <3>6. /\ Listing(p) = m_children[p] /\ Listing(p)' = After(c, m_children[p])
          /\ \A r \in Pids : r # p => Listing(r)' = Listing(r)
      BY Zenon, <1>1, <1>6, <3>4, <3>5, ListingBegin
    <3>7. Listing(p)' = erase(Listing(p), i)
      BY Zenon, <3>4, <3>6, AfterCases
    <3>8. i \in 1 .. Len(Listing(p)) /\ t = Listing(p)[i]
      BY Zenon, <3>2, <3>3, <3>6
    <3>9. Lists(Listing(p), t)
      BY Zenon, <3>8 DEF Lists
    <3>10. /\ Distinct(erase(Listing(p), i)) /\ ~Lists(erase(Listing(p), i), t)
           /\ \A s : Lists(erase(Listing(p), i), s) => Lists(Listing(p), s)
           /\ \A s : Lists(Listing(p), s) /\ s # t => Lists(erase(Listing(p), i), s)
      BY Zenon, <1>6, <3>8, RemoveList
    <3>11. reaped'[t] # 0 /\ \A s \in Pids : s # t => reaped'[s] = reaped[s]
      BY <2>2, <3>3 DEF TreeInv, Typed, RestOK
    <3>12. Taken(t)
      BY Zenon, <3>6, <3>7, <3>9, <3>10, <3>11
    <3>13. OwnChange'
      <4>1. pc'[p] = "erase"
        BY Zenon, <2>2 DEF Goto, TreeInv, Typed, CallsOK
      <4> HIDE DEF Taken
      <4> QED BY Zenon, <1>1, <1>2, <1>6, <3>2, <3>4, <3>5, <4>1, OwnBegin
    <3> QED BY Zenon, <3>12, <3>13
  <2> HIDE DEF Taken
  <2> QED BY Zenon, <2>1, <2>2 DEF waitpid_scan
<1>70. PICK t \in Pids \cup {NoProcess} : Taken(t)
  BY Zenon, <1>7
<1>71. OwnChange'
  BY Zenon, <1>7
<1>8. OwnExit'
  <2>1. \A r \in Pids : exec[r].at # "no" \/ m_state[r] = "Zombie" => r # p
    BY Zenon, <1>4
  <2>2. \A r \in Pids : exec[r].at \in {"zombie", "kill"} => r # p
    BY Zenon, <1>5
  <2>3. \A r \in Pids : r # p => pc'[r] = pc[r] /\ Listing(r)' = Listing(r)
    BY Zenon, <1>2, <1>70
  <2>4. exec[Keyboard].at = "no"
    BY Zenon DEF Family, OwnExit
  <2>5. ASSUME NEW r \in Pids
        PROVE  /\ exec[r].at # "no" => pc'[r] = "exit" /\ exec[r].pid = r
               /\ m_state[r] = "Zombie" => pc'[r] \in {"exit", "yield"} /\ Listing(r)' = <<>>
               /\ exec[r].at \in {"zombie", "kill"} => Listing(r)' = <<>>
    <3>1. CASE r = p
      BY Zenon, <3>1, <2>1, <2>2
    <3>2. CASE r # p
      BY Zenon, <3>2, <2>3 DEF Family, OwnExit
    <3> QED BY Zenon, <3>1, <3>2
  <2> QED BY Zenon, <1>1, <2>4, <2>5 DEF OwnExit
<1>9. NewChild'
  <2> SUFFICES ASSUME NEW r \in Pids, pc'[r] \in {"link", "start"}
               PROVE  pc'[arg'[r]] = "new" /\ m_parent'[arg'[r]] = r
    BY Zenon DEF NewChild
  <2>1. pc[r] \in {"link", "start"} /\ arg'[r] = arg[r]
    BY Zenon, <1>2, <1>3
  <2>10. pc[r] \in {"link", "start", "console"}
    BY <2>1
  <2>2. arg[r] \in Pids /\ pc[arg[r]] = "new" /\ m_parent[arg[r]] = r
    BY Zenon, <2>1, <2>10 DEF Family, NewChild, TreeInv, CallsBorn
  <2>3. arg[r] # p
    BY Zenon, <2>2, <1>3
  <2> QED BY Zenon, <1>1, <1>2, <2>1, <2>2, <2>3
<1>10. \A s, r \in Pids : s # t => (Held(s, r)' <=> Held(s, r))
  BY Zenon, <1>1, <1>70 DEF Held, Unreaped
<1>11. t \in Pids => m_parent[t] = p /\ ~Unreaped(t)'
  <2> SUFFICES ASSUME t \in Pids PROVE m_parent[t] = p /\ ~Unreaped(t)'
    OBVIOUS
  <2>1. Held(t, p)
    BY Zenon, <1>4, <1>70 DEF Family, ListsHeld
  <2> QED BY Zenon, <2>1, <1>70 DEF Held, Unreaped
<1>12. ListsHeld'
  <2>1. \A r \in Pids : Distinct(Listing(r)') /\ Distinct(exec'[r].todo)
    BY Zenon, <1>1, <1>70 DEF Family, ListsHeld
  <2>2. ASSUME NEW r \in Pids, NEW s \in Pids, exec'[r].at # "adopt", Lists(Listing(r)', s)
        PROVE  Held(s, r)'
    <3>1. Lists(Listing(r), s)
      BY Zenon, <2>2, <1>70
    <3>2. Held(s, r)
      BY Zenon, <3>1, <2>2, <1>1 DEF Family, ListsHeld
    <3>3. s # t
      BY Zenon, <3>2, <2>2, <1>70, <1>11 DEF Held
    <3> QED BY Zenon, <3>2, <3>3, <1>10
  <2>3. ASSUME NEW r \in Pids, NEW s \in Pids, exec'[r].at = "adopt", Lists(exec'[r].todo, s)
        PROVE  Held(s, r)'
    <3>1. Held(s, r)
      BY Zenon, <2>3, <1>1 DEF Family, ListsHeld
    <3>2. s # t
      BY Zenon, <3>1, <2>3, <1>1, <1>4, <1>11 DEF Held
    <3> QED BY Zenon, <3>1, <3>2, <1>10
  <2> QED BY Zenon, <2>1, <2>2, <2>3 DEF ListsHeld
<1>13. HeldListed'
  <2> SUFFICES ASSUME NEW s \in Pids, s # InitPid, Unreaped(s)'
               PROVE  /\ Lists(Listing(m_parent[s])', s)
                      /\ exec[m_parent[s]].at = "adopt" => Lists(exec[m_parent[s]].todo, s)
    BY Zenon, <1>1 DEF HeldListed
  <2>1. s # t
    BY Zenon, <1>11
  <2>2. Unreaped(s)
    BY Zenon, <2>1, <1>1, <1>70 DEF Unreaped
  <2>3. m_parent[s] \in Pids
    BY Zenon, <2>2, ParentBorn DEF Unreaped, Kin, Born
  <2>4. PICK r \in Pids : r = m_parent[s]
    BY Zenon, <2>3
  <2>5. m_parent'[s] = r /\ Lists(Listing(r), s) /\ (exec[r].at = "adopt" => Lists(exec[r].todo, s))
    BY Zenon, <1>1, <2>2, <2>4 DEF Family, HeldListed
  <2>6. Lists(Listing(r)', s)
    BY Zenon, <2>1, <2>5, <1>70
  <2> QED BY Zenon, <2>4, <2>5, <2>6
<1> QED BY Zenon, <1>71, <1>8, <1>9, <1>12, <1>13 DEF Family

(* exit() starts with all children to be handed over.                      *)
LEMMA FamilyExit ==
    ASSUME TreeInv, Family, Apart', NEW p \in Pids, exit(p)
    PROVE  Family'
<1>1. /\ pc[p] = "user" /\ pc' = [pc EXCEPT ![p] = "exit"] /\ arg' = arg
      /\ UNCHANGED <<m_state, m_parent, m_children, change, reaped>>
      /\ ExitBegin(p, p, "code")
  BY Zenon DEF exit, Runs, Goto, Tree
<1>2. pc'[p] = "exit" /\ \A r \in Pids : r # p => pc'[r] = pc[r]
  BY Zenon, <1>1 DEF TreeInv, Typed, CallsOK
<1>3. /\ pc[p] \notin {"exit", "yield", "new", "start"} /\ pc'[p] \notin {"link", "start"}
      /\ pc[p] \notin {"link", "erase"}
  BY <1>1, <1>2
<1>4. exec[p].at # "adopt" /\ m_state[p] # "Zombie"
  BY Zenon, <1>3, NotExiting DEF Family, OwnExit
<1>40. change[p] = NoChange /\ (p # InitPid => Listing(p) = m_children[p])
  BY Zenon, <1>3, <1>4, NotChanging, ListingOwn
<1>41. \A r \in Pids : Listing(r)' = Listing(r)
  BY Zenon, <1>1, ListingKept
<1>42. OwnChange'
  <2>1. \A y \in Executors : y # p /\ change[y].op = "resize" => exec'[y].at = exec[y].at
    BY Zenon, <1>1, PidFacts DEF ExitBegin, TreeInv, Typed, ExecOK
  <2>2. change[p].op \notin {"append", "erase"} /\ change[p].op # "resize"
    BY <1>40, NoChangeFacts
  <2>3. \A y \in Executors : change[y].op \in {"append", "erase"} => pc'[y] = pc[y]
    BY Zenon, <2>2, <1>2, ChangerIsThread
  <2> QED BY Zenon, <1>1, <2>1, <2>2, <2>3, OwnKept
<1>5. /\ exec'[p].pid = p
      /\ \/ exec'[p].at = "adopt" /\ exec'[p].todo = Listing(p)
         \/ exec'[p].at = "halt" /\ exec'[p].todo = <<>>
      /\ \A r \in Executors : r # p => exec'[r] = exec[r]
  <2> DEFINE a == [at |-> "halt", pid |-> p, todo |-> <<>>]
             b == [at |-> "adopt", pid |-> p, todo |-> Listing(p)]
  <2>1. exec' = [exec EXCEPT ![p] = a] \/ exec' = [exec EXCEPT ![p] = b]
    BY Zenon, <1>1, <1>40 DEF ExitBegin
  <2>2. (exec'[p] = a \/ exec'[p] = b) /\ \A r \in Executors : r # p => exec'[r] = exec[r]
    BY Zenon, <2>1, PidFacts DEF TreeInv, Typed, ExecOK
  <2>3. /\ a.pid = p /\ a.at = "halt" /\ a.todo = <<>>
        /\ b.pid = p /\ b.at = "adopt" /\ b.todo = Listing(p)
    OBVIOUS
  <2> HIDE DEF a, b
  <2> QED BY Zenon, <2>2, <2>3
<1>6. exec'[p].at \notin {"zombie", "kill"} /\ (exec'[p].at = "halt" => exec'[p].at # "adopt")
  BY <1>5
<1>7. OwnExit'
  <2>1. exec'[Keyboard].at = "no"
    BY Zenon, <1>5, PidFacts DEF Family, OwnExit
  <2>2. \A r \in Pids : r # p => exec'[r] = exec[r]
    BY Zenon, <1>5, PidFacts
  <2>3. \A r \in Pids : exec'[r].at # "no" => pc'[r] = "exit" /\ exec'[r].pid = r
    <3>1. \A r \in Pids : exec[r].at # "no" => pc[r] = "exit" /\ exec[r].pid = r
      BY Zenon DEF Family, OwnExit
    <3>2. \A r \in Pids : r # p /\ exec'[r].at # "no" => pc'[r] = "exit" /\ exec'[r].pid = r
      BY Zenon, <3>1, <1>2, <2>2
    <3> QED BY Zenon, <3>2, <1>2, <1>5
  <2>4. \A r \in Pids : m_state[r] = "Zombie" => pc'[r] \in {"exit", "yield"} /\ Listing(r) = <<>>
    BY Zenon, <1>2, <1>4 DEF Family, OwnExit
  <2>5. \A r \in Pids : exec'[r].at \in {"zombie", "kill"} => Listing(r) = <<>>
    BY Zenon, <1>6, <2>2 DEF Family, OwnExit
  <2>6. \A r \in Pids : m_state'[r] = "Zombie" => pc'[r] \in {"exit", "yield"} /\ Listing(r)' = <<>>
    BY Zenon, <1>1, <1>41, <2>4
  <2>7. \A r \in Pids : exec'[r].at \in {"zombie", "kill"} => Listing(r)' = <<>>
    BY Zenon, <1>41, <2>5
  <2> QED BY Zenon, <2>1, <2>3, <2>6, <2>7 DEF OwnExit
<1>8. NewChild'
  <2> SUFFICES ASSUME NEW r \in Pids, pc'[r] \in {"link", "start"}
               PROVE  pc'[arg[r]] = "new" /\ m_parent[arg[r]] = r
    BY Zenon, <1>1 DEF NewChild
  <2>1. pc[r] \in {"link", "start"}
    BY Zenon, <1>2, <1>3
  <2>10. pc[r] \in {"link", "start", "console"}
    BY <2>1
  <2>2. arg[r] \in Pids /\ pc[arg[r]] = "new" /\ m_parent[arg[r]] = r
    BY Zenon, <2>1, <2>10 DEF Family, NewChild, TreeInv, CallsBorn
  <2> QED BY Zenon, <1>2, <1>3, <2>2
<1>9. \A s, r : Held(s, r)' <=> Held(s, r)
  BY Zenon, <1>1 DEF Held, Unreaped
<1>10. ListsHeld'
  <2>1. ASSUME NEW r \in Pids
        PROVE  /\ Distinct(Listing(r)) /\ Distinct(exec'[r].todo)
               /\ \A s \in Pids : exec'[r].at # "adopt" /\ Lists(Listing(r), s) => Held(s, r)
               /\ \A s \in Pids : exec'[r].at = "adopt" /\ Lists(exec'[r].todo, s) => Held(s, r)
    <3>1. CASE r = p
      BY Zenon, <3>1, <1>4, <1>5, <1>6, EmptyList DEF Family, ListsHeld
    <3>2. CASE r # p
      BY Zenon, <3>2, <1>5, PidFacts DEF Family, ListsHeld
    <3> QED BY Zenon, <3>1, <3>2
  <2> QED BY Zenon, <1>1, <1>9, <1>41, <2>1 DEF ListsHeld
<1>11. HeldListed'
  <2> SUFFICES ASSUME NEW s \in Pids, s # InitPid, Unreaped(s)
               PROVE  /\ Lists(Listing(m_parent[s]), s)
                      /\ exec'[m_parent[s]].at = "adopt" => Lists(exec'[m_parent[s]].todo, s)
    <3>1. ASSUME NEW s \in Pids, s # InitPid, Unreaped(s)
          PROVE  Listing(m_parent[s])' = Listing(m_parent[s])
      <4>1. m_parent[s] \in Pids
        BY Zenon, <3>1, ParentBorn DEF Unreaped, Kin, Born
      <4> QED BY Zenon, <1>1, <1>41, <4>1
    <3> QED BY Zenon, <1>1, <3>1 DEF HeldListed, Unreaped
  <2>1. m_parent[s] \in Pids
    BY Zenon, ParentBorn DEF Unreaped, Kin, Born
  <2>2. Lists(Listing(m_parent[s]), s)
    BY Zenon DEF Family, HeldListed
  <2>3. CASE m_parent[s] = p
    BY Zenon, <2>2, <2>3, <1>5, <1>6
  <2>4. CASE m_parent[s] # p
    BY Zenon, <2>1, <2>2, <2>4, <1>5, PidFacts DEF Family, HeldListed
  <2> QED BY Zenon, <2>3, <2>4
<1> QED BY Zenon, <1>42, <1>7, <1>8, <1>10, <1>11 DEF Family

(* The loop of exit() hands over a child that was not reaped, and init did *)
(* not list it before.                                                     *)
LEMMA FamilyAdopt ==
    ASSUME TreeInv, Family, Apart', NEW x \in Executors, adopt(x)
    PROVE  Family'
<1>1. PICK q \in Pids :
      /\ exec[x].at = "adopt" /\ exec[x].todo # <<>> /\ exec[x].todo \in Seq(Pids)
      /\ q = Head(exec[x].todo) /\ Kin(q) /\ Lists(exec[x].todo, q)
      /\ exec[x].pid # InitPid
      /\ m_parent' = [m_parent EXCEPT ![q] = InitPid]
      /\ change[x] = NoChange /\ PushBegin(x, InitPid, q, "resize")
  BY Zenon, AdoptFacts
<1>2. /\ exec'[x].at = "adopt" /\ exec'[x].pid = exec[x].pid
      /\ exec'[x].todo = Tail(exec[x].todo)
      /\ \A y \in Executors \ {x} : exec'[y] = exec[y]
      /\ UNCHANGED <<m_state, m_children, pc, arg, reaped>>
  BY Zenon, AdoptFacts
<1>3. x \in Pids /\ exec[x].pid = x /\ x # InitPid /\ pc[x] = "exit"
  <2>1. exec[x].at # "no"
    BY <1>1
  <2>2. x \in Pids
    BY Zenon, <2>1 DEF Family, OwnExit, Executors
  <2> QED BY Zenon, <1>1, <2>1, <2>2 DEF Family, OwnExit
<1>4. exec[InitPid].at \notin {"adopt", "zombie", "kill"}
  <2> SUFFICES ASSUME exec[InitPid].at \in {"adopt", "zombie", "kill"} PROVE FALSE
    OBVIOUS
  <2>1. exec[InitPid].at # "no"
    OBVIOUS
  <2>2. exec[InitPid].pid = InitPid
    BY Zenon, <2>1, PidFacts DEF Family, OwnExit
  <2> QED BY Zenon, <2>2, PidFacts DEF TreeInv, ExitsBorn
<1>5. Held(q, x)
  BY Zenon, <1>1, <1>3 DEF Family, ListsHeld
<1>6. ~Lists(Listing(InitPid), q)
  <2>1. exec[InitPid].at # "adopt"
    BY <1>4
  <2>2. Lists(Listing(InitPid), q) => Held(q, InitPid)
    BY Zenon, <1>1, <2>1, PidFacts DEF Family, ListsHeld
  <2> QED BY Zenon, <2>2, <1>3, <1>5 DEF Held
<1>7. Listing(InitPid) \in Seq(Pids) /\ Distinct(Listing(InitPid))
  BY Zenon, PidFacts, ListingSeq DEF Family, OwnChange, ListsHeld
<1>70. PICK c \in Changes : /\ change' = [change EXCEPT ![x] = c]
                            /\ c.op = "resize" /\ c.of = InitPid /\ c.child = q
                            /\ c.at = Len(m_children[InitPid]) + 1
  <2>1. "resize" \in {"append", "resize"} /\ InitPid \in Pids
    BY PidFacts
  <2> QED BY <1>1, <2>1, PushFacts
<1>71. c.op \notin {"none", "erase", "append"}
  BY <1>70
<1>72. /\ Listing(InitPid) = m_children[InitPid]
       /\ Listing(InitPid)' = After(c, m_children[InitPid])
       /\ \A r \in Pids : r # InitPid => Listing(r)' = Listing(r)
  <2>1. Apart /\ c.op # "none" /\ InitPid \in Pids
    BY Zenon, <1>71, PidFacts DEF Family, OwnChange
  <2> QED BY Zenon, <1>1, <1>2, <1>70, <2>1, ListingBegin
<1>73. OwnChange'
  BY Zenon, <1>2, <1>70, <1>71, OwnBegin
<1>8. /\ \A s : Lists(Listing(InitPid)', s) <=> Lists(Listing(InitPid), s) \/ s = q
      /\ Distinct(Listing(InitPid)')
  <2> DEFINE v == resize(Listing(InitPid), Len(Listing(InitPid)) + 1, q)
  <2>1. Listing(InitPid)' = v
    BY Zenon, <1>70, <1>72, AfterCases
  <2>2. PICK n : n = Len(Listing(InitPid)) + 1
    OBVIOUS
  <2>3. /\ \A s : Lists(resize(Listing(InitPid), n, q), s) <=> Lists(Listing(InitPid), s) \/ s = q
        /\ Distinct(resize(Listing(InitPid), n, q))
    BY <1>6, <1>7, <2>2, ResizeList
  <2> QED BY Zenon, <2>1, <2>2, <2>3
<1>9. \A r \in Pids : r # InitPid => Listing(r)' = Listing(r)
  BY Zenon, <1>72
<1>10. m_parent'[q] = InitPid /\ \A r \in Pids : r # q => m_parent'[r] = m_parent[r]
  BY Zenon, <1>1 DEF TreeInv, Typed, TreeOK
<1>11. Distinct(exec[x].todo)
  BY Zenon, <1>3 DEF Family, ListsHeld
<1>12. /\ \A s : Lists(exec[x].todo, s) <=> Lists(exec'[x].todo, s) \/ s = q
       /\ Distinct(exec'[x].todo) /\ ~Lists(exec'[x].todo, q)
  <2>1. /\ \A s : Lists(exec[x].todo, s) <=> Lists(Tail(exec[x].todo), s) \/ s = Head(exec[x].todo)
        /\ Distinct(Tail(exec[x].todo)) /\ ~Lists(Tail(exec[x].todo), Head(exec[x].todo))
    BY Zenon, <1>1, <1>11, TailList
  <2> QED BY Zenon, <1>1, <1>2, <2>1
<1>13. OwnExit'
  <2>1. m_state[InitPid] # "Zombie"
    <3>1. m_state[InitPid] = "Running"
      BY Zenon DEF TreeInv, OldFirst
    <3> QED BY <3>1
  <2>2. \A r \in Pids : exec'[r].at = exec[r].at /\ exec'[r].pid = exec[r].pid
    BY Zenon, <1>1, <1>2, PidFacts
  <2>3. exec'[Keyboard] = exec[Keyboard]
    BY Zenon, <1>2, <1>3, PidFacts
  <2>4. exec'[Keyboard].at = "no"
    BY Zenon, <2>3 DEF Family, OwnExit
  <2>5. \A r \in Pids : exec'[r].at # "no" => pc'[r] = "exit" /\ exec'[r].pid = r
    <3>1. \A r \in Pids : exec[r].at # "no" => pc[r] = "exit" /\ exec[r].pid = r
      BY Zenon DEF Family, OwnExit
    <3> QED BY Zenon, <3>1, <1>2, <2>2
  <2>6. \A r \in Pids : m_state'[r] = "Zombie" => pc'[r] \in {"exit", "yield"} /\ Listing(r)' = <<>>
    <3>1. \A r \in Pids : m_state[r] = "Zombie" => pc[r] \in {"exit", "yield"} /\ Listing(r) = <<>>
      BY Zenon DEF Family, OwnExit
    <3> QED BY Zenon, <3>1, <1>2, <1>9, <2>1
  <2>7. \A r \in Pids : exec'[r].at \in {"zombie", "kill"} => Listing(r)' = <<>>
    <3>1. exec[InitPid].at \notin {"zombie", "kill"}
      BY <1>4
    <3>2. \A r \in Pids : exec[r].at \in {"zombie", "kill"} => Listing(r) = <<>>
      BY Zenon DEF Family, OwnExit
    <3> QED BY Zenon, <1>9, <2>2, <3>1, <3>2
  <2> QED BY Zenon, <2>4, <2>5, <2>6, <2>7 DEF OwnExit
<1>14. NewChild'
  <2> SUFFICES ASSUME NEW r \in Pids, pc[r] \in {"link", "start"}
               PROVE  pc[arg[r]] = "new" /\ m_parent'[arg[r]] = r
    BY Zenon, <1>2 DEF NewChild
  <2>10. pc[r] \in {"link", "start", "console"}
    OBVIOUS
  <2>1. arg[r] \in Pids /\ pc[arg[r]] = "new" /\ m_parent[arg[r]] = r
    BY Zenon, <2>10 DEF Family, NewChild, TreeInv, CallsBorn
  <2>2. r # x
    BY <1>3
  <2>3. arg[r] # q
    BY Zenon, <2>1, <2>2, <1>5 DEF Held
  <2> QED BY Zenon, <1>10, <2>1, <2>3
<1>15. /\ Held(q, InitPid)'
       /\ \A s, r \in Pids : s # q /\ Held(s, r) => Held(s, r)'
       /\ \A s : Unreaped(s)' <=> Unreaped(s)
  <2>1. \A s : Unreaped(s)' <=> Unreaped(s)
    BY Zenon, <1>2 DEF Unreaped
  <2> QED BY Zenon, <2>1, <1>5, <1>10 DEF Held
<1>16. ListsHeld'
  <2>1. ASSUME NEW r \in Pids PROVE Distinct(Listing(r)') /\ Distinct(exec'[r].todo)
    <3>1. Distinct(Listing(r)')
      BY Zenon, <1>8, <1>9 DEF Family, ListsHeld
    <3>2. Distinct(exec'[r].todo)
      BY Zenon, <1>2, <1>12, PidFacts DEF Family, ListsHeld
    <3> QED BY Zenon, <3>1, <3>2
  <2>2. ASSUME NEW r \in Pids, NEW s \in Pids, exec'[r].at # "adopt", Lists(Listing(r)', s)
        PROVE  Held(s, r)'
    <3>1. r # x /\ exec[r].at # "adopt"
      BY Zenon, <2>2, <1>1, <1>2, PidFacts
    <3>2. CASE Lists(Listing(r), s)
      <4>1. Held(s, r)
        BY Zenon, <3>1, <3>2 DEF Family, ListsHeld
      <4>2. s # q
        BY Zenon, <3>1, <4>1, <1>5 DEF Held
      <4> QED BY Zenon, <4>1, <4>2, <1>15
    <3>3. CASE ~Lists(Listing(r), s)
      <4>1. r = InitPid /\ s = q
        BY Zenon, <2>2, <3>3, <1>8, <1>9
      <4> QED BY Zenon, <4>1, <1>15
    <3> QED BY Zenon, <3>2, <3>3
  <2>3. ASSUME NEW r \in Pids, NEW s \in Pids, exec'[r].at = "adopt", Lists(exec'[r].todo, s)
        PROVE  Held(s, r)'
    <3>1. exec[r].at = "adopt" /\ Lists(exec[r].todo, s)
      BY Zenon, <2>3, <1>1, <1>2, <1>12, PidFacts
    <3>2. Held(s, r)
      BY Zenon, <3>1 DEF Family, ListsHeld
    <3>3. s # q
      BY Zenon, <2>3, <3>2, <1>5, <1>12 DEF Held
    <3> QED BY Zenon, <3>2, <3>3, <1>15
  <2> QED BY Zenon, <2>1, <2>2, <2>3 DEF ListsHeld
<1>17. HeldListed'
  <2> SUFFICES ASSUME NEW s \in Pids, s # InitPid, Unreaped(s)
               PROVE  /\ Lists(Listing(m_parent[s])', s)
                      /\ exec'[m_parent'[s]].at = "adopt" => Lists(exec'[m_parent'[s]].todo, s)
    BY Zenon, <1>15 DEF HeldListed
  <2>1. CASE s = q
    <3>1. exec'[InitPid].at # "adopt"
      <4>1. exec'[InitPid] = exec[InitPid]
        BY Zenon, <1>2, <1>3, PidFacts
      <4> QED BY <4>1, <1>4
    <3> QED BY Zenon, <2>1, <3>1, <1>8, <1>9, <1>10
  <2>2. CASE s # q
    <3>0. PICK r \in Pids : r = m_parent[s]
      BY Zenon, ParentBorn DEF Unreaped, Kin, Born
    <3>1. r \in Pids /\ m_parent'[s] = r
      BY Zenon, <2>2, <3>0, <1>10
    <3>2. Lists(Listing(r), s) /\ (exec[r].at = "adopt" => Lists(exec[r].todo, s))
      BY Zenon, <3>0 DEF Family, HeldListed
    <3>3. Lists(Listing(r)', s)
      BY Zenon, <3>1, <3>2, <1>8, <1>9
    <3>4. exec'[r].at = "adopt" => Lists(exec'[r].todo, s)
      BY Zenon, <2>2, <3>1, <3>2, <1>1, <1>2, <1>12, PidFacts
    <3> QED BY Zenon, <3>1, <3>3, <3>4
  <2> QED BY Zenon, <2>1, <2>2
<1> QED BY Zenon, <1>73, <1>13, <1>14, <1>16, <1>17 DEF Family

(* When the list is cleared nothing on it is left to hand over, and from   *)
(* then on the process has no children.                                    *)
LEMMA FamilyEnd ==
    ASSUME TreeInv, Family, Apart', NEW x \in Executors, exit_clear(x) \/ exit_zombie(x) \/ exit_kill(x)
    PROVE  Family'
<1>1. /\ exit_clear(x) => exec[x].at = "adopt" /\ exec[x].todo = <<>> /\ exec'[x].at = "zombie"
      /\ exit_zombie(x) => exec[x].at = "zombie" /\ exec'[x].at = "kill"
      /\ exit_kill(x) => exec[x].at = "kill" /\ exec'[x].at = "no"
      /\ exec'[x].at # "no" => exec'[x].pid = exec[x].pid
      /\ exec'[x].todo \in {exec[x].todo, <<>>}
  BY Zenon, ExitFacts
<1>2. /\ \A y \in Executors \ {x} : exec'[y] = exec[y]
      /\ UNCHANGED <<m_parent, arg, change, reaped>>
  BY Zenon, ExitFacts DEF exit_clear, exit_zombie, exit_kill
<1>3. exec[x].at # "no" /\ exec'[x].at # "adopt"
  BY <1>1
<1>4. x \in Pids /\ exec[x].pid = x /\ pc[x] = "exit"
  <2>1. x \in Pids
    BY Zenon, <1>3 DEF Family, OwnExit, Executors
  <2> QED BY Zenon, <1>3, <2>1 DEF Family, OwnExit
<1>5. /\ m_state' = m_state \/ m_state' = [m_state EXCEPT ![x] = "Zombie"]
      /\ exit_kill(x) => m_state' = m_state
      /\ exit_clear(x) => m_children' = [m_children EXCEPT ![x] = <<>>]
      /\ ~exit_clear(x) => m_children' = m_children
      /\ pc' = pc \/ pc' = [pc EXCEPT ![x] = "yield"]
      /\ ~exit_kill(x) => pc' = pc
  BY Zenon, <1>1, <1>4 DEF exit_clear, exit_zombie, exit_kill, Calls, Tree, Goto
<1>6. Listing(x)' = <<>> /\ \A r \in Pids : r # x => Listing(r)' = Listing(r)
  <2>1. CASE exit_clear(x)
    <3>1. change[x] = NoChange /\ x # InitPid /\ UNCHANGED change
      <4>1. exec[x].at = "adopt"
        BY Zenon, <2>1, <1>1
      <4>2. exec[x].at \in {"adopt", "zombie", "kill"}
        BY <4>1
      <4> QED BY Zenon, <2>1, <4>2, <1>4 DEF exit_clear, TreeInv, ExitsBorn
    <3>2. \A y \in Executors : change[y].of # x
      BY Zenon, <3>1, <1>4, NotChanged
    <3>3. m_children'[x] = <<>> /\ \A r \in Pids : r # x => m_children'[r] = m_children[r]
      BY Zenon, <2>1, <1>4, <1>5 DEF TreeInv, Typed, TreeOK
    <3>4. Listing(x)' = m_children'[x]
      BY Zenon, <3>1, <3>2 DEF Listing
    <3> QED BY Zenon, <3>1, <3>3, <3>4 DEF Listing
  <2>2. CASE ~exit_clear(x)
    <3>1. exec[x].at \in {"zombie", "kill"}
      BY Zenon, <2>2, <1>1
    <3> QED BY Zenon, <2>2, <3>1, <1>2, <1>4, <1>5, ListingKept DEF Family, OwnExit
  <2> QED BY Zenon, <2>1, <2>2
<1>7. /\ \A r \in Pids : r # x => pc'[r] = pc[r] /\ m_state'[r] = m_state[r]
      /\ pc'[x] \in {"exit", "yield"} /\ (exec'[x].at # "no" => pc'[x] = "exit")
      /\ m_state'[x] = m_state[x] \/ m_state'[x] = "Zombie"
      /\ pc'[x] \notin {"link", "start"}
  <2>1. \A r \in Pids : r # x => pc'[r] = pc[r] /\ m_state'[r] = m_state[r]
    BY Zenon, <1>4, <1>5 DEF TreeInv, Typed, TreeOK, CallsOK
  <2>2. m_state'[x] = m_state[x] \/ m_state'[x] = "Zombie"
    BY Zenon, <1>4, <1>5 DEF TreeInv, Typed, TreeOK
  <2>3. pc'[x] = pc[x] \/ pc'[x] = "yield"
    BY Zenon, <1>4, <1>5 DEF TreeInv, Typed, CallsOK
  <2>4. exec'[x].at # "no" => pc'[x] = "exit"
    BY Zenon, <1>1, <1>4, <1>5
  <2>5. pc'[x] \notin {"link", "start"}
    BY <2>3, <1>4
  <2> QED BY Zenon, <1>4, <2>1, <2>2, <2>3, <2>4, <2>5
<1>8. OwnExit'
  <2>1. exec'[Keyboard].at = "no"
    BY Zenon, <1>2, <1>4, PidFacts DEF Family, OwnExit
  <2>2. ASSUME NEW r \in Pids
        PROVE  /\ exec'[r].at # "no" => pc'[r] = "exit" /\ exec'[r].pid = r
               /\ m_state'[r] = "Zombie" => pc'[r] \in {"exit", "yield"} /\ Listing(r)' = <<>>
               /\ exec'[r].at \in {"zombie", "kill"} => Listing(r)' = <<>>
    <3>1. CASE r = x
      BY Zenon, <3>1, <1>1, <1>4, <1>6, <1>7
    <3>2. CASE r # x
      <4>1. exec'[r] = exec[r] /\ pc'[r] = pc[r] /\ m_state'[r] = m_state[r] /\ Listing(r)' = Listing(r)
        BY Zenon, <3>2, <1>2, <1>6, <1>7, PidFacts
      <4> QED BY Zenon, <4>1 DEF Family, OwnExit
    <3> QED BY Zenon, <3>1, <3>2
  <2> QED BY Zenon, <2>1, <2>2 DEF OwnExit
<1>9. NewChild'
  <2> SUFFICES ASSUME NEW r \in Pids, pc'[r] \in {"link", "start"}
               PROVE  pc'[arg[r]] = "new" /\ m_parent[arg[r]] = r
    BY Zenon, <1>2 DEF NewChild
  <2>1. pc[r] \in {"link", "start"}
    BY Zenon, <1>7
  <2>10. pc[r] \in {"link", "start", "console"}
    BY <2>1
  <2>2. arg[r] \in Pids /\ pc[arg[r]] = "new" /\ m_parent[arg[r]] = r
    BY Zenon, <2>1, <2>10 DEF Family, NewChild, TreeInv, CallsBorn
  <2>3. arg[r] # x
    BY <2>2, <1>4
  <2> QED BY Zenon, <1>7, <2>2, <2>3
<1>10. \A s \in Pids : Unreaped(s)' <=> Unreaped(s)
  <2>1. m_state[x] # "None" /\ m_state'[x] # "None"
    <3>1. m_state[x] # "None"
      BY Zenon, <1>3, <1>4 DEF TreeInv, ExitsBorn, Born
    <3> QED BY <3>1, <1>7
  <2> QED BY Zenon, <1>2, <1>7, <2>1 DEF Unreaped
<1>11. \A s, r \in Pids : Held(s, r)' <=> Held(s, r)
  BY Zenon, <1>2, <1>10 DEF Held
<1>12. ListsHeld'
  <2>1. ASSUME NEW r \in Pids
        PROVE  /\ Distinct(Listing(r)') /\ Distinct(exec'[r].todo)
               /\ \A s \in Pids : exec'[r].at # "adopt" /\ Lists(Listing(r)', s) => Held(s, r)
               /\ \A s \in Pids : exec'[r].at = "adopt" /\ Lists(exec'[r].todo, s) => Held(s, r)
    <3>1. CASE r = x
      BY Zenon, <3>1, <1>1, <1>3, <1>6, EmptyList DEF Family, ListsHeld
    <3>2. CASE r # x
      <4>1. exec'[r] = exec[r] /\ Listing(r)' = Listing(r)
        BY Zenon, <3>2, <1>2, <1>6, PidFacts
      <4> QED BY Zenon, <4>1 DEF Family, ListsHeld
    <3> QED BY Zenon, <3>1, <3>2
  <2> QED BY Zenon, <1>11, <2>1 DEF ListsHeld
<1>13. HeldListed'
  <2> SUFFICES ASSUME NEW s \in Pids, s # InitPid, Unreaped(s)
               PROVE  /\ Lists(Listing(m_parent[s])', s)
                      /\ exec'[m_parent[s]].at = "adopt" => Lists(exec'[m_parent[s]].todo, s)
    BY Zenon, <1>2, <1>10 DEF HeldListed
  <2>1. m_parent[s] \in Pids
    BY Zenon, ParentBorn DEF Unreaped, Kin, Born
  <2>2. /\ Lists(Listing(m_parent[s]), s)
        /\ exec[m_parent[s]].at = "adopt" => Lists(exec[m_parent[s]].todo, s)
    BY Zenon DEF Family, HeldListed
  <2>3. m_parent[s] # x
    <3> SUFFICES ASSUME m_parent[s] = x PROVE FALSE
      OBVIOUS
    <3>1. Listing(x) # <<>>
      BY Zenon, <2>2, EmptyList
    <3>2. exit_clear(x)
      <4> SUFFICES ASSUME ~exit_clear(x) PROVE FALSE
        OBVIOUS
      <4>1. exec[x].at \in {"zombie", "kill"}
        BY Zenon, <1>1
      <4> QED BY Zenon, <4>1, <3>1, <1>4 DEF Family, OwnExit
    <3> QED BY Zenon, <3>2, <2>2, <1>1, EmptyList
  <2>4. exec'[m_parent[s]] = exec[m_parent[s]]
    BY Zenon, <2>1, <2>3, <1>2, PidFacts
  <2>5. PICK r \in Pids : r = m_parent[s]
    BY Zenon, <2>1
  <2>6. m_parent'[s] = r /\ Listing(r)' = Listing(r)
    BY Zenon, <2>3, <2>5, <1>2, <1>6
  <2> QED BY Zenon, <2>2, <2>4, <2>5, <2>6
<1>14. OwnChange'
  <2>1. ASSUME NEW y \in Executors
        PROVE  /\ change'[y].op = "append" => pc'[y] = "link"
               /\ change'[y].op = "erase" =>
                     pc'[y] = "erase" /\ change'[y].at \in 1 .. Len(m_children'[y])
               /\ change'[y].op = "resize" =>
                     exec'[y].at = "adopt" /\ change'[y].at = Len(m_children'[InitPid]) + 1
    <3>1. change'[y] = change[y]
      BY Zenon, <1>2
    <3>2. CASE y = x
      <4>1. change[x] = NoChange
        <5>1. CASE exit_clear(x)
          BY Zenon, <5>1 DEF exit_clear
        <5>2. CASE ~exit_clear(x)
          <6>1. exec[x].at \in {"zombie", "kill"}
            BY Zenon, <5>2, <1>1
          <6>2. exec[x].at # "adopt" /\ pc[x] \notin {"link", "erase"}
            BY <6>1, <1>4
          <6> QED BY Zenon, <6>2, <1>4, NotChanging
        <5> QED BY Zenon, <5>1, <5>2
      <4> QED BY Zenon, <3>1, <3>2, <4>1, NoChangeFacts
    <3>3. CASE y # x
      <4>1. exec'[y] = exec[y]
        BY Zenon, <3>3, <1>2
      <4>2. m_children'[InitPid] = m_children[InitPid]
        <5>1. CASE exit_clear(x)
          <6>1. exec[x].at = "adopt"
            BY Zenon, <5>1, <1>1
          <6>2. exec[x].at \in {"adopt", "zombie", "kill"}
            BY <6>1
          <6>3. x # InitPid
            BY Zenon, <6>2, <1>4 DEF TreeInv, ExitsBorn
          <6> QED BY Zenon, <5>1, <6>3, <1>5, PidFacts DEF TreeInv, Typed, TreeOK
        <5>2. CASE ~exit_clear(x)
          BY Zenon, <5>2, <1>5
        <5> QED BY Zenon, <5>1, <5>2
      <4>3. y \in Pids => pc'[y] = pc[y] /\ m_children'[y] = m_children[y]
        BY Zenon, <3>3, <1>4, <1>5, <1>7 DEF TreeInv, Typed, TreeOK
      <4>4. CASE change[y].op \in {"append", "erase"}
        <5>1. y \in Pids /\ change[y].op # "resize"
          BY <4>4, ChangerIsThread
        <5> QED BY Zenon, <3>1, <4>3, <5>1 DEF Family, OwnChange
      <4>5. CASE change[y].op \notin {"append", "erase"}
        <5>1. change[y].op # "append" /\ change[y].op # "erase"
          BY <4>5
        <5> QED BY Zenon, <3>1, <4>1, <4>2, <5>1 DEF Family, OwnChange
      <4> QED BY Zenon, <4>4, <4>5
    <3> QED BY Zenon, <3>2, <3>3
  <2> QED BY Zenon, <2>1 DEF OwnChange
<1> QED BY Zenon, <1>14, <1>8, <1>9, <1>12, <1>13 DEF Family

----------------------------------------------------------------------------
(* Until Ctrl-C is pressed every step keeps the family.                    *)
LEMMA FamilyNext == FamilyInv /\ [Next]_vars => FamilyInv'
<1> SUFFICES ASSUME FamilyInv, [Next]_vars PROVE FamilyInv'
  OBVIOUS
<1> USE DEF FamilyInv
<1>1. TreeInv'
  BY Zenon, TreeNext
<1>2. /\ serial' \in BOOLEAN
      /\ UNCHANGED vars \/ (Step /\ (serial' => serial /\ Apart'))
  <2>1. CASE UNCHANGED vars
    <3>1. serial' = serial
      BY Zenon, <2>1 DEF vars
    <3>2. serial' \in BOOLEAN
      BY <3>1
    <3> QED BY Zenon, <2>1, <3>2
  <2>2. CASE Next
    BY Zenon, <2>2 DEF Next, Watched
  <2> QED BY Zenon, <2>1, <2>2
<1>3. ASSUME serial', presses' = 0 PROVE Family'
  <2>1. ASSUME UNCHANGED vars PROVE Family'
    <3>1. UNCHANGED <<presses, serial, m_state, m_parent, m_children, exec, change, reaped, pc, arg>>
      BY Zenon, <2>1 DEF vars, Tree, Calls, Signals, Stops
    <3>2. Apart'
      BY Zenon, <1>3, <3>1 DEF Family, OwnChange, Apart
    <3> QED BY Zenon, <1>3, <3>1, <3>2, FamilyKept
  <2> SUFFICES ASSUME Step, serial, Apart' PROVE Family'
    BY Zenon, <1>2, <1>3, <2>1
  <2>2. ASSUME send_signal PROVE FALSE
    <3>1. presses' = presses + 1 /\ presses \in Nat
      BY <2>2 DEF send_signal, TreeInv, Typed, SignalsOK
    <3> QED BY <1>3, <3>1
  <2>3. ASSUME NEW p \in Pids, Syscall(p) PROVE Family'
    <3>1. presses' = presses
      BY Zenon, <2>3 DEF Syscall, Goes, fork, fork_link, fork_start, fork_console, exit, waitpid,
         waitpid_scan, waitpid_erased, Signals
    <3>2. Family
      BY Zenon, <1>3, <3>1
    <3> QED
      BY Zenon, <2>3, <3>2, FamilyFork, FamilySyscall, FamilyExit, FamilyScan, FamilyLink
         DEF Syscall, Goes
  <2>4. ASSUME NEW x \in Executors, Exit(x) PROVE Family'
    <3>1. presses' = presses
      BY Zenon, <2>4 DEF Exit, adopt, adopt_end, exit_clear, exit_zombie, exit_kill, Signals
    <3>2. Family
      BY Zenon, <1>3, <3>1
    <3> QED BY Zenon, <2>4, <3>2, FamilyAdopt, FamilyAdopted, FamilyEnd DEF Exit
  <2>5. ASSUME \/ \E p \in Pids : stop(p) \/ prepare_next_signal(p)
               \/ \E p \in Pids, h \in Handlers : set_signal_handler(p, h)
        PROVE  Family'
    <3>1. /\ presses' = presses
          /\ UNCHANGED <<m_state, m_parent, m_children, exec, change, reaped, pc, arg>>
      BY Zenon, <2>5, TreeAside
    <3> QED BY Zenon, <1>3, <3>1, FamilyKept
  <2> QED BY Zenon, <2>2, <2>3, <2>4, <2>5 DEF Step
<1> QED BY Zenon, <1>1, <1>2, <1>3

(* From every process the loop of exit() over the parents reaches init,    *)
(* and a thread is only stopped when its process can be waited for.  Until *)
(* Ctrl-C is pressed, and as long as nobody uses a vector of children that *)
(* another is changing, every process that waitpid() did not return is     *)
(* listed exactly once, by a parent that runs: for every number of         *)
(* processes and every order of their steps.                               *)
THEOREM ProcessesFamily == Spec => []NobodyOrphaned
<1>1. Init => FamilyInv
  <2> SUFFICES ASSUME Init PROVE FamilyInv
    OBVIOUS
  <2>1. serial \in BOOLEAN
    BY DEF Init
  <2> QED BY Zenon, <2>1, TreeInit, FamilyInit DEF FamilyInv
<1> QED BY <1>1, FamilyNext, FamilyImplies, PTL DEF Spec
=============================================================================
