-------------------------- MODULE DeploymentProofs --------------------------
(***************************************************************************)
(* Proofs about the deployment and the readers of the configuration, for   *)
(* any plan made of the scripts, any chain and any number of deaths,       *)
(* retries and changes of governance.                                      *)
(***************************************************************************)
EXTENDS ConfigReaders, FixedPointProofs, SequenceTheorems

-----------------------------------------------------------------------------
(* Sequences.                                                              *)

IsSequence(s) == s \in Seq({s[i] : i \in DOMAIN s})

LEMMA SequenceOfAny ==
    ASSUME NEW A, NEW s \in Seq(A)
    PROVE  /\ IsSequence(s)
           /\ Len(s) \in Nat /\ DOMAIN s = 1..Len(s) /\ \A i \in 1..Len(s) : s[i] \in A
<1>1. Len(s) \in Nat /\ DOMAIN s = 1..Len(s) /\ \A i \in 1..Len(s) : s[i] \in A
    OBVIOUS
<1>2. s \in [1..Len(s) -> {s[i] : i \in DOMAIN s}]  BY <1>1, LenProperties
<1>. QED  BY <1>1, <1>2, IsASeq DEF IsSequence

LEMMA LengthOf ==
    ASSUME NEW s, IsSequence(s)
    PROVE  Len(s) \in Nat /\ DOMAIN s = 1..Len(s)
BY SequenceOfAny DEF IsSequence

\* What is left of a sequence of steps or calls when the first was made.
LEMMA TailOf ==
    ASSUME NEW s, IsSequence(s), s # <<>>
    PROVE  /\ IsSequence(Tail(s)) /\ Head(s) = s[1] /\ 1 \in DOMAIN s
           /\ Len(Tail(s)) \in Nat /\ Len(Tail(s)) = Len(s) - 1
           /\ \A i \in DOMAIN Tail(s) : i + 1 \in DOMAIN s /\ Tail(s)[i] = s[i + 1]
<1>. DEFINE A == {s[i] : i \in DOMAIN s}
<1>1. s \in Seq(A) /\ s # <<>>  BY DEF IsSequence
<1>. HIDE DEF A
<1>2. /\ Tail(s) \in Seq(A) /\ Len(Tail(s)) = Len(s) - 1 /\ Head(s) = s[1]
      /\ Len(s) \in Nat /\ Len(s) >= 1 /\ DOMAIN s = 1..Len(s)
      /\ \A i \in 1..Len(Tail(s)) : Tail(s)[i] = s[i + 1]
    BY <1>1
<1>3. IsSequence(Tail(s)) /\ DOMAIN Tail(s) = 1..Len(Tail(s))  BY <1>2, SequenceOfAny
<1>. QED  BY <1>2, <1>3

LEMMA JoinedAt ==
    ASSUME NEW s, NEW t, IsSequence(s), IsSequence(t)
    PROVE  /\ IsSequence(s \o t) /\ DOMAIN (s \o t) = 1..(Len(s) + Len(t))
           /\ \A i \in 1..(Len(s) + Len(t)) :
                  (s \o t)[i] = IF i <= Len(s) THEN s[i] ELSE t[i - Len(s)]
<1>. DEFINE A == {s[i] : i \in DOMAIN s} \union {t[i] : i \in DOMAIN t}
<1>1. s \in Seq(A) /\ t \in Seq(A)
    <2>1. s \in Seq({s[i] : i \in DOMAIN s}) /\ t \in Seq({t[i] : i \in DOMAIN t})
        BY DEF IsSequence
    <2>. QED  BY <2>1, SeqMonotonic
<1>. HIDE DEF A
<1>2. /\ s \o t \in Seq(A) /\ Len(s \o t) = Len(s) + Len(t)
      /\ \A i \in 1..(Len(s) + Len(t)) :
            (s \o t)[i] = IF i <= Len(s) THEN s[i] ELSE t[i - Len(s)]
    BY <1>1, ConcatProperties
<1>. QED  BY <1>2, SequenceOfAny

LEMMA Joined ==
    ASSUME NEW s, NEW t, IsSequence(s), IsSequence(t)
    PROVE  /\ IsSequence(s \o t)
           /\ \A i \in DOMAIN (s \o t) : \/ \E j \in DOMAIN s : (s \o t)[i] = s[j]
                                         \/ \E j \in DOMAIN t : (s \o t)[i] = t[j]
<1>1. Len(s) \in Nat /\ DOMAIN s = 1..Len(s) /\ Len(t) \in Nat /\ DOMAIN t = 1..Len(t)
    BY LengthOf
<1>2. ASSUME NEW i \in 1..(Len(s) + Len(t))
      PROVE  \/ \E j \in DOMAIN s : (s \o t)[i] = s[j]
             \/ \E j \in DOMAIN t : (s \o t)[i] = t[j]
    <2>1. CASE i <= Len(s)  BY <1>1, <2>1, JoinedAt
    <2>2. CASE i > Len(s)
        <3>1. i - Len(s) \in DOMAIN t /\ (s \o t)[i] = t[i - Len(s)]
            BY <1>1, <2>2, JoinedAt
        <3>. QED  BY <3>1
    <2>. QED  BY <1>1, <2>1, <2>2
<1>. QED  BY <1>2, JoinedAt

-----------------------------------------------------------------------------
(* Sets of numbers and sets put in order.                                  *)

LEMMA MinIsLeast ==
    ASSUME NEW S \in SUBSET Nat, S # {}
    PROVE  Min(S) \in S /\ \A y \in S : Min(S) <= y
<1>. DEFINE Less == OpToRel(<, Nat)
<1>1. PICK x \in S : \A y \in S : ~(<<y, x>> \in Less)
    <2>1. IsWellFoundedOn(Less, Nat)  BY NatLessThanWellFounded
    <2>. HIDE DEF Less
    <2>. QED  BY <2>1, WFMin
<1>2. \A y \in S : x <= y
    <2>. SUFFICES ASSUME NEW y \in S, ~(x <= y) PROVE FALSE  OBVIOUS
    <2>1. x \in Nat /\ y \in Nat /\ y < x  OBVIOUS
    <2>2. <<y, x>> \in Less  BY <2>1 DEF OpToRel
    <2>. QED  BY <1>1, <2>2
<1>. QED  BY <1>2 DEF Min

\* What FoldSet computes with an operation op: the table of the folds over the
\* subsets of S.
FoldStep(op, base, tab, s) == IF s = {} THEN base ELSE op[First(s)][tab[s \ {First(s)}]]

FoldTable(op, base, S, tab) == tab = [s \in SUBSET S |-> FoldStep(op, base, tab, s)]

FoldsUpto(op, base, S, T, n) ==
    {tab \in [SmallSubsets(S, n) -> T] :
        \A s \in SmallSubsets(S, n) : tab[s] = FoldStep(op, base, tab, s)}

LEMMA FoldTableExists ==
    ASSUME NEW S, IsFiniteSet(S), NEW T, NEW base \in T, NEW op \in [S -> [T -> T]]
    PROVE  \E tab \in [SUBSET S -> T] : FoldTable(op, base, S, tab)
<1>. DEFINE Good == {n \in Nat : FoldsUpto(op, base, S, T, n) # {}}
<1>a. \A s \in SUBSET S : IsFiniteSet(s) /\ Cardinality(s) \in Nat
    BY FS_Subset, FS_CardinalityType
<1>1. 0 \in Good
    <2>1. SmallSubsets(S, 0) = {{}}
        <3>1. \A s \in SmallSubsets(S, 0) : s = {}  BY <1>a, FS_EmptySet DEF SmallSubsets
        <3>2. {} \in SmallSubsets(S, 0)  BY FS_EmptySet DEF SmallSubsets
        <3>. QED  BY <3>1, <3>2
    <2>. DEFINE tab == [s \in {{}} |-> base]
    <2>2. tab \in [{{}} -> T] /\ \A s \in {{}} : tab[s] = FoldStep(op, base, tab, s)
        BY DEF FoldStep
    <2>. HIDE DEF tab
    <2>. QED  BY <2>1, <2>2 DEF FoldsUpto
<1>2. ASSUME NEW n \in Nat, n \in Good
      PROVE  n + 1 \in Good
    <2>1. PICK tab \in [SmallSubsets(S, n) -> T] :
            \A s \in SmallSubsets(S, n) : tab[s] = FoldStep(op, base, tab, s)
        BY <1>2 DEF FoldsUpto
    <2>. DEFINE more == [s \in SmallSubsets(S, n + 1) |->
                            IF s \in SmallSubsets(S, n) THEN tab[s]
                            ELSE FoldStep(op, base, tab, s)]
    <2>2. ASSUME NEW s \in SmallSubsets(S, n + 1), s # {}
          PROVE  First(s) \in S /\ s \ {First(s)} \in SmallSubsets(S, n)
        <3>1. First(s) \in s /\ s \in SUBSET S  BY <2>2, FirstIn DEF SmallSubsets
        <3>2. Cardinality(s) <= n + 1 BY DEF SmallSubsets
        <3>3. IsFiniteSet(s)  BY <1>a, <3>1
        <3>4. /\ Cardinality(s) \in Nat /\ Cardinality(s \ {First(s)}) \in Nat
              /\ Cardinality(s) = Cardinality(s \ {First(s)}) + 1
            BY <3>1, <3>3, SmallerSet
        <3>5. Cardinality(s \ {First(s)}) <= n  BY <3>2, <3>4
        <3>. QED  BY <3>1, <3>5 DEF SmallSubsets
    <2>3. more \in [SmallSubsets(S, n + 1) -> T]
        <3>1. \A s \in SmallSubsets(S, n + 1) : FoldStep(op, base, tab, s) \in T
            BY <2>1, <2>2 DEF FoldStep
        <3>. QED  BY <3>1
    <2>4. ASSUME NEW s \in SmallSubsets(S, n + 1)
          PROVE  more[s] = FoldStep(op, base, more, s)
        <3>1. s # {} => tab[s \ {First(s)}] = more[s \ {First(s)}]
            <4>1. \A t \in SmallSubsets(S, n) : t \in SmallSubsets(S, n + 1)
                BY <1>a DEF SmallSubsets
            <4>. QED  BY <2>2, <4>1
        <3>2. FoldStep(op, base, tab, s) = FoldStep(op, base, more, s)
            BY <3>1 DEF FoldStep
        <3>3. more[s] = FoldStep(op, base, tab, s)  BY <2>1
        <3>. QED  BY <3>2, <3>3
    <2>. HIDE DEF more
    <2>. QED  BY <2>3, <2>4 DEF FoldsUpto
<1>. HIDE DEF Good
<1>3. \A n \in Nat : n \in Good  BY <1>1, <1>2, SetInduction
<1>4. Cardinality(S) \in Nat /\ SmallSubsets(S, Cardinality(S)) = SUBSET S
    BY FS_CardinalityType, FS_Subset DEF SmallSubsets
<1>5. PICK tab : tab \in FoldsUpto(op, base, S, T, Cardinality(S))
    BY <1>3, <1>4 DEF Good
<1>6. tab \in [SUBSET S -> T] /\ \A s \in SUBSET S : tab[s] = FoldStep(op, base, tab, s)
    BY <1>4, <1>5 DEF FoldsUpto
<1>7. tab = [s \in SUBSET S |-> FoldStep(op, base, tab, s)]  BY <1>6
<1>. QED  BY <1>6, <1>7 DEF FoldTable

\* InOrder lists each element of a finite set once.
Enumerates(s, set) ==
    /\ IsSequence(s)
    /\ \A i \in DOMAIN s : s[i] \in set
    /\ \A x \in set : \E i \in DOMAIN s : s[i] = x
    /\ \A i, j \in DOMAIN s : s[i] = s[j] => i = j

LEMMA EnumeratesMore ==
    ASSUME NEW s, NEW set, Enumerates(s, set), NEW x, x \notin set
    PROVE  Enumerates(Append(s, x), set \union {x})
<1>. DEFINE A == {s[i] : i \in DOMAIN s} \union {x}
            t == Append(s, x)
<1>1. Len(s) \in Nat /\ DOMAIN s = 1..Len(s)  BY LengthOf DEF Enumerates
<1>2. s \in Seq(A)
    <2>1. s \in Seq({s[i] : i \in DOMAIN s})  BY DEF Enumerates, IsSequence
    <2>. QED  BY <2>1, SeqMonotonic
<1>3. x \in A  OBVIOUS
<1>. HIDE DEF A
<1>4. /\ t \in Seq(A) /\ Len(t) = Len(s) + 1 /\ t[Len(s) + 1] = x
      /\ \A i \in 1..Len(s) : t[i] = s[i]
    BY <1>2, <1>3, AppendProperties
<1>5. IsSequence(t) /\ DOMAIN t = 1..(Len(s) + 1)  BY <1>1, <1>4, SequenceOfAny
<1>. HIDE DEF t
<1>6. \A i \in DOMAIN t : \/ i \in DOMAIN s /\ t[i] = s[i] /\ t[i] \in set
                          \/ i = Len(s) + 1 /\ t[i] = x
    BY <1>1, <1>4, <1>5 DEF Enumerates
<1>7. \A i \in DOMAIN s : i \in DOMAIN t  BY <1>1, <1>5
<1>8. Len(s) + 1 \in DOMAIN t  BY <1>1, <1>5
<1>9. \A y \in set \union {x} : \E i \in DOMAIN t : t[i] = y
    <2>. SUFFICES ASSUME NEW y \in set \union {x} PROVE \E i \in DOMAIN t : t[i] = y
        OBVIOUS
    <2>1. CASE y = x  BY <1>4, <1>8, <2>1
    <2>2. CASE y \in set
        <3>1. PICK i \in DOMAIN s : s[i] = y  BY <2>2 DEF Enumerates
        <3>2. t[i] = y  BY <1>1, <1>4, <3>1
        <3>. QED  BY <1>7, <3>2
    <2>. QED  BY <2>1, <2>2
<1>10. \A i, j \in DOMAIN t : t[i] = t[j] => i = j
    BY <1>1, <1>6 DEF Enumerates
<1>. QED  BY <1>5, <1>6, <1>9, <1>10 DEF Enumerates, t

LEMMA InOrderEnumerates ==
    ASSUME NEW S, IsFiniteSet(S)
    PROVE  Enumerates(InOrder(S), S)
<1>. DEFINE Q(tab) == tab = [s \in SUBSET S |->
                IF s = {} THEN <<>>
                ELSE Append(tab[s \ {CHOOSE x \in s : TRUE}], CHOOSE x \in s : TRUE)]
            T == Seq(S)
            op == [x \in S |-> [q \in T |-> Append(q, x)]]
            tab == CHOOSE tab : Q(tab)
<1>1. InOrder(S) = tab[S]
    BY DEF InOrder, FoldSet, MapThenFoldSet
<1>2. op \in [S -> [T -> T]] /\ <<>> \in T  OBVIOUS
<1>3. PICK some \in [SUBSET S -> T] : FoldTable(op, <<>>, S, some)
    <2>. HIDE DEF op, T
    <2>. QED  BY <1>2, FoldTableExists
<1>4. Q(some)
    <2>1. \A s \in SUBSET S : some[s] = FoldStep(op, <<>>, some, s)
        BY <1>3 DEF FoldTable
    <2>2. ASSUME NEW s \in SUBSET S, s # {}
          PROVE  some[s] = Append(some[s \ {First(s)}], First(s))
        <3>1. First(s) \in S  BY <2>2, FirstIn
        <3>2. some[s \ {First(s)}] \in T  BY <1>3
        <3>. HIDE DEF T
        <3>3. op[First(s)][some[s \ {First(s)}]] = Append(some[s \ {First(s)}], First(s))
            BY <3>1, <3>2
        <3>. QED  BY <2>1, <2>2, <3>3 DEF FoldStep
    <2>3. some[{}] = <<>>  BY <2>1 DEF FoldStep
    <2>. QED  BY <1>3, <2>2, <2>3 DEF First
<1>5. Q(tab)  BY <1>4
<1>6. \A s \in SUBSET S : tab[s] = IF s = {} THEN <<>>
                                  ELSE Append(tab[s \ {First(s)}], First(s))
    BY <1>5 DEF First
<1>. HIDE DEF tab
<1>. DEFINE Good == {n \in Nat : \A s \in SUBSET S : Cardinality(s) <= n
                                    => Enumerates(tab[s], s)}
<1>a. \A s \in SUBSET S : IsFiniteSet(s) /\ Cardinality(s) \in Nat
    BY FS_Subset, FS_CardinalityType
<1>b. Enumerates(<<>>, {})  BY DEF Enumerates, IsSequence
<1>7. 0 \in Good
    <2>1. \A s \in SUBSET S : Cardinality(s) <= 0 => s = {}  BY <1>a, FS_EmptySet
    <2>. QED  BY <1>6, <1>b, <2>1
<1>8. ASSUME NEW n \in Nat, n \in Good
      PROVE  n + 1 \in Good
    <2>. SUFFICES ASSUME NEW s \in SUBSET S, Cardinality(s) <= n + 1
                  PROVE  Enumerates(tab[s], s)
        OBVIOUS
    <2>1. CASE s = {}  BY <1>6, <1>b, <2>1
    <2>2. CASE s # {}
        <3>1. First(s) \in s  BY <2>2, FirstIn
        <3>2. s \ {First(s)} \in SUBSET S /\ Cardinality(s \ {First(s)}) <= n
            BY <1>a, <3>1, SmallerSet
        <3>3. Enumerates(tab[s \ {First(s)}], s \ {First(s)})  BY <1>8, <3>2
        <3>4. (s \ {First(s)}) \union {First(s)} = s  BY <3>1
        <3>5. Enumerates(Append(tab[s \ {First(s)}], First(s)), s)
            BY <3>3, <3>4, EnumeratesMore
        <3>. QED  BY <1>6, <2>2, <3>5
    <2>. QED  BY <2>1, <2>2
<1>9. \A n \in Nat : n \in Good
    <2>. HIDE DEF Good
    <2>. QED  BY <1>7, <1>8, SetInduction
<1>. QED  BY <1>1, <1>9, <1>a

-----------------------------------------------------------------------------
(* What the scripts are made of.                                           *)

\* The contracts that as_singleton guards, and the script that deploys each.
Makers ==
    [ProxyAdmin |-> "proxy_admin.main", GovernanceProxy |-> "governance_proxy.main",
     GyroConfig |-> "config.main", GydToken |-> "gyd_token.main",
     VaultRegistry |-> "vault_registry.main", AssetRegistry |-> "asset_registry.main",
     Reserve |-> "reserve.main", ReserveSystemRead |-> "reserve.reserve_reader",
     ReserveManager |-> "reserve_manager.main", PrimaryAMMV1 |-> "pamm.main",
     ChainlinkPriceOracle |-> "chainlink.main", TellorOracle |-> "tellor.main",
     TrustedSignerPriceOracle |-> "coinbase.main", CheckedPriceOracle |-> "checked.main",
     GenericVaultPriceOracle |-> "vault_price_oracle.generic",
     BalancerCPMMPriceOracle |-> "vault_price_oracle.cpmm",
     BatchVaultPriceOracle |-> "batch.main", RootSafetyCheck |-> "safety.root",
     ReserveSafetyManager |-> "safety.reserve_safety_manager",
     VaultSafetyMode |-> "safety.vault_safety_mode"]

\* The keys by the type they are set with.
AddressKeys == DOMAIN Roles \union Treasuries \union {"BALANCER_VAULT", "ROOT_PRICE_ORACLE"}

NumberKeys ==
    Settings \union {PoolKey[s] : s \in Settings} \union {TypeKey[s] : s \in Settings}
    \union {"STEWARDSHIP_INC_DURATION", "STEWARDSHIP_INC_MAX_VIOLATIONS",
            "STEWARDSHIP_INC_MIN_CR", "GYD_RECOVERY_TARGET_CR", "GYD_RECOVERY_TRIGGER_CR"}

KeyTyped(key, type) ==
    \/ key \in AddressKeys /\ type = "address"
    \/ key \in NumberKeys \ AddressKeys /\ type = "uint"

RuleOf(name, rule) ==
    rule.kind = "skip" => rule.contract \in DOMAIN Makers /\ Makers[rule.contract] = name

StepOf(name, step) ==
    /\ step.op \in {"deploy", "proxy", "overwrite", "setKey", "call", "asset", "transfer",
                    "print", "raise"}
    /\ step.op = "deploy" =>
           /\ step.at = New(step.at.contract)
           /\ step.at.contract \in DOMAIN Makers => Makers[step.at.contract] = name
    /\ step.op = "proxy" => step.at = NewProxy(step.at.contract)
    /\ step.op = "overwrite" =>
           /\ step.implementation.contract \in {"GenericVault", "BalancerPoolVault"}
           /\ step.proxy.contract = step.implementation.contract
    /\ step.op = "setKey" => KeyTyped(step.key, step.type)
    /\ step.op = "asset" => step.list \in {"assets", "stable", "ranges"}

\* A script deploys one contract and one proxy at most, and swaps the container of
\* an implementation only after the proxy.
Lonely(step) == step.op \in {"deploy", "proxy"}
Plain(step) == step.op \notin {"deploy", "proxy", "overwrite"}

StepsOf(name, steps) ==
    /\ IsSequence(steps)
    /\ \A i \in DOMAIN steps : StepOf(name, steps[i])
    /\ \A i, j \in DOMAIN steps : Lonely(steps[i]) /\ steps[i].op = steps[j].op => i = j
    /\ \A i \in DOMAIN steps : steps[i].op = "overwrite" =>
           \E j \in 1..(i - 1) : steps[j].op = "proxy" /\ steps[j].at = steps[i].proxy

RulesOf(name, rules) == \A i \in DOMAIN rules : RuleOf(name, rules[i])

ScriptOf(name, script) == RulesOf(name, script.rules) /\ StepsOf(name, script.steps)

\* The kinds of rules,
LEMMA RuleKinds ==
    /\ \A c, name : RuleOf(name, Deployed(c))
    /\ \A c \in DOMAIN Makers : RuleOf(Makers[c], Singleton(c))
BY DEF RuleOf, Deployed, Singleton

\* of steps,
LEMMA DeployKind ==
    ASSUME NEW name, NEW c, NEW g, NEW keys, NEW cs,
           c \in DOMAIN Makers => Makers[c] = name
    PROVE  /\ StepOf(name, Deploy(c, g, keys, cs))
           /\ Deploy(c, g, keys, cs).op = "deploy"
BY DEF StepOf, Deploy, New, Address

LEMMA StepKinds ==
    ASSUME NEW name
    PROVE  /\ \A k, a : k \in AddressKeys =>
                  StepOf(name, SetAddress(k, a)) /\ SetAddress(k, a).op = "setKey"
           /\ \A k : k \in NumberKeys /\ k \notin AddressKeys =>
                  StepOf(name, SetUint(k)) /\ SetUint(k).op = "setKey"
           /\ \A by, t, l, e :
                  StepOf(name, Call(by, t, l, e)) /\ Call(by, t, l, e).op = "call"
           /\ \A l, n : l \in {"assets", "stable", "ranges"} =>
                  StepOf(name, CallAsset(l, n)) /\ CallAsset(l, n).op = "asset"
           /\ \A t, o : StepOf(name, TransferOwnership(t, o))
                        /\ TransferOwnership(t, o).op = "transfer"
           /\ \A b : StepOf(name, PrintCalls(b)) /\ PrintCalls(b).op = "print"
           /\ StepOf(name, Raise) /\ Raise.op = "raise"
<1>1. \A k, a : k \in AddressKeys =>
          StepOf(name, SetAddress(k, a)) /\ SetAddress(k, a).op = "setKey"
    BY DEF StepOf, SetAddress, SetKeyOf, KeyTyped
<1>2. \A k : k \in NumberKeys /\ k \notin AddressKeys =>
          StepOf(name, SetUint(k)) /\ SetUint(k).op = "setKey"
    BY DEF StepOf, SetUint, SetKeyOf, KeyTyped
<1>3. \A by, t, l, e : StepOf(name, Call(by, t, l, e)) /\ Call(by, t, l, e).op = "call"
    BY DEF StepOf, Call
<1>4. \A l, n : l \in {"assets", "stable", "ranges"} =>
          StepOf(name, CallAsset(l, n)) /\ CallAsset(l, n).op = "asset"
    BY DEF StepOf, CallAsset
<1>5. \A t, o : StepOf(name, TransferOwnership(t, o)) /\ TransferOwnership(t, o).op = "transfer"
    BY DEF StepOf, TransferOwnership
<1>6. \A b : StepOf(name, PrintCalls(b)) /\ PrintCalls(b).op = "print"
    BY DEF StepOf, PrintCalls
<1>7. StepOf(name, Raise) /\ Raise.op = "raise"  BY DEF StepOf, Raise
<1>. QED  BY <1>1, <1>2, <1>3, <1>4, <1>5, <1>6, <1>7

LEMMA ProxyKinds ==
    ASSUME NEW name, NEW impl, NEW g, NEW l
    PROVE  /\ StepOf(name, DeployProxy(impl, g, l)) /\ DeployProxy(impl, g, l).op = "proxy"
           /\ DeployProxy(impl, g, l).at = NewProxy(impl.contract)
           /\ \A proxy : /\ Overwrite(impl, proxy).op = "overwrite"
                         /\ Overwrite(impl, proxy).proxy = proxy
                         /\ impl.contract \in {"GenericVault", "BalancerPoolVault"}
                            /\ proxy.contract = impl.contract =>
                                StepOf(name, Overwrite(impl, proxy))
BY DEF StepOf, DeployProxy, NewProxy, Overwrite, Address

\* and of sequences of them.
LEMMA NoSteps ==
    ASSUME NEW name
    PROVE  StepsOf(name, <<>>)
BY DEF StepsOf, IsSequence

LEMMA OneStep ==
    ASSUME NEW name, NEW a, StepOf(name, a), a.op # "overwrite"
    PROVE  StepsOf(name, <<a>>)
<1>1. IsSequence(<<a>>)  BY DEF IsSequence
<1>. QED  BY <1>1 DEF StepsOf

LEMMA TwoSteps ==
    ASSUME NEW name, NEW a, NEW b, StepOf(name, a), StepOf(name, b), Lonely(a), a.op # b.op,
           b.op = "overwrite" => a.op = "proxy" /\ a.at = b.proxy
    PROVE  StepsOf(name, <<a, b>>)
<1>1. IsSequence(<<a, b>>)  BY DEF IsSequence
<1>. QED  BY <1>1 DEF StepsOf, Lonely

LEMMA ThreeSteps ==
    ASSUME NEW name, NEW a, NEW b, NEW c, StepOf(name, a), StepOf(name, b), StepOf(name, c),
           a.op = "deploy", b.op = "proxy", c.op = "overwrite", b.at = c.proxy
    PROVE  StepsOf(name, <<a, b, c>>)
<1>1. IsSequence(<<a, b, c>>)  BY DEF IsSequence
<1>2. \A i \in DOMAIN <<a, b, c>> : i \in {1, 2, 3}  OBVIOUS
<1>. QED  BY <1>1, <1>2 DEF StepsOf, Lonely

LEMMA StepsJoined ==
    ASSUME NEW name, NEW s, NEW t, StepsOf(name, s), StepsOf(name, t),
           \/ \A i \in DOMAIN s : Plain(s[i])
           \/ \A i \in DOMAIN t : Plain(t[i])
    PROVE  StepsOf(name, s \o t)
<1>. DEFINE A == {s[i] : i \in DOMAIN s} \union {t[i] : i \in DOMAIN t}
            n == Len(s)
            both == s \o t
<1>1. /\ n \in Nat /\ DOMAIN s = 1..n
      /\ Len(t) \in Nat /\ DOMAIN t = 1..Len(t)
    BY LengthOf DEF StepsOf
<1>2. s \in Seq(A) /\ t \in Seq(A)
    <2>1. s \in Seq({s[i] : i \in DOMAIN s}) /\ t \in Seq({t[i] : i \in DOMAIN t})
        BY DEF StepsOf, IsSequence
    <2>. QED  BY <2>1, SeqMonotonic
<1>. HIDE DEF A
<1>3. /\ both \in Seq(A) /\ Len(both) = n + Len(t)
      /\ \A i \in 1..(n + Len(t)) : both[i] = IF i <= n THEN s[i] ELSE t[i - n]
    BY <1>2, ConcatProperties
<1>4. IsSequence(both) /\ DOMAIN both = 1..(n + Len(t))
    BY <1>3, SequenceOfAny
<1>. HIDE DEF both, n
<1>5. \A i \in DOMAIN both : \/ i \in DOMAIN s /\ i <= n /\ both[i] = s[i]
                             \/ i - n \in DOMAIN t /\ i > n /\ both[i] = t[i - n]
    BY <1>1, <1>3, <1>4
<1>6. \A i \in DOMAIN s : both[i] = s[i]  BY <1>1, <1>3, <1>4
<1>7. \A i \in DOMAIN t : both[i + n] = t[i]  BY <1>1, <1>3, <1>4
<1>8. ASSUME NEW i \in DOMAIN both  PROVE StepOf(name, both[i])
    BY <1>5 DEF StepsOf
<1>9. ASSUME NEW i \in DOMAIN both, NEW j \in DOMAIN both,
             Lonely(both[i]), both[i].op = both[j].op
      PROVE  i = j
    <2>1. ~Plain(both[i]) /\ ~Plain(both[j])  BY <1>9 DEF Plain, Lonely
    <2>2. CASE i \in DOMAIN s /\ j \in DOMAIN s  BY <1>6, <1>9, <2>2 DEF StepsOf
    <2>3. CASE i > n /\ j > n
        <3>1. /\ i - n \in DOMAIN t /\ both[i] = t[i - n]
              /\ j - n \in DOMAIN t /\ both[j] = t[j - n]
            BY <1>1, <1>5, <2>3
        <3>2. i - n = j - n  BY <1>9, <3>1 DEF StepsOf
        <3>. QED  BY <1>1, <1>4, <3>2
    <2>. QED  BY <1>5, <2>1, <2>2, <2>3
<1>10. ASSUME NEW i \in DOMAIN both, both[i].op = "overwrite"
       PROVE  \E j \in 1..(i - 1) : both[j].op = "proxy" /\ both[j].at = both[i].proxy
    <2>1. CASE i \in DOMAIN s
        <3>1. PICK j \in 1..(i - 1) : s[j].op = "proxy" /\ s[j].at = s[i].proxy
            BY <1>6, <1>10, <2>1 DEF StepsOf
        <3>2. both[j] = s[j] /\ both[i] = s[i]  BY <1>1, <1>6, <2>1
        <3>. QED  BY <3>1, <3>2
    <2>2. CASE i - n \in DOMAIN t /\ i > n /\ both[i] = t[i - n]
        <3>1. PICK j \in 1..(i - n - 1) : t[j].op = "proxy" /\ t[j].at = t[i - n].proxy
            BY <1>10, <2>2 DEF StepsOf
        <3>2. j \in DOMAIN t /\ j + n \in 1..(i - 1)  BY <1>1, <1>4, <2>2
        <3>. QED  BY <1>7, <2>2, <3>1, <3>2
    <2>. QED  BY <1>5, <2>1, <2>2
<1>. QED  BY <1>4, <1>8, <1>9, <1>10 DEF StepsOf, both

-----------------------------------------------------------------------------
(* Every script is made so.                                                *)

\* The names of the plan stand for these scripts.
LEMMA ScriptIs ==
    /\ Script("proxy_admin.main") = proxy_admin_main
    /\ Script("governance_proxy.main") = governance_proxy_main
    /\ Script("governance_proxy.proxy") = governance_proxy_proxy
    /\ Script("config.main") = config_main
    /\ Script("config.proxy") = config_proxy
    /\ Script("config.set_initial_config") = set_initial_config
    /\ Script("gyd_token.main") = gyd_token_main
    /\ Script("gyd_token.proxy") = gyd_token_proxy
    /\ Script("vault_registry.main") = vault_registry_main
    /\ Script("vault_registry.proxy") = vault_registry_proxy
    /\ Script("asset_registry.main") = asset_registry_main
    /\ Script("asset_registry.proxy") = asset_registry_proxy
    /\ Script("asset_registry.initialize") = asset_registry_initialize
    /\ Script("asset_registry.set_asset_ranges") = set_asset_ranges
    /\ Script("reserve.main") = reserve_main
    /\ Script("reserve.proxy") = reserve_proxy
    /\ Script("reserve.reserve_reader") = reserve_reader
    /\ Script("reserve_manager.main") = reserve_manager_main
    /\ Script("pamm.main") = pamm_main
    /\ Script("motherboard.main") = motherboard_main
    /\ Script("motherboard.proxy") = motherboard_proxy
    /\ Script("fee_handler.main") = fee_handler_main
    /\ Script("stewardship.main") = stewardship_main
    /\ Script("gyd_recovery.main") = gyd_recovery_main
    /\ Script("rate_manager.main") = rate_manager_main
    /\ Script("rate_manager.atoken_provider") = atoken_provider
    /\ Script("rate_manager.set_rate_providers") = set_rate_providers
    /\ Script("compound_rate_provider.main") = compound_rate_provider_main
    /\ Script("chainlink.main") = chainlink_main
    /\ Script("chainlink.set_feeds") = set_feeds
    /\ Script("tellor.main") = tellor_main
    /\ Script("coinbase.main") = coinbase_main
    /\ Script("checked.main") = checked_main
    /\ Script("checked.initialize") = checked_initialize
    /\ Script("vault_price_oracle.generic") = vault_price_oracle_generic
    /\ Script("vault_price_oracle.cpmm") = vault_price_oracle_cpmm
    /\ Script("vault_price_oracle.g2clp") = vault_price_oracle_g2clp
    /\ Script("vault_price_oracle.g3clp") = vault_price_oracle_g3clp
    /\ Script("vault_price_oracle.eclp") = vault_price_oracle_eclp
    /\ Script("batch.main") = batch_main
    /\ Script("batch.initialize") = batch_initialize
    /\ Script("safety.root") = safety_root
    /\ Script("safety.reserve_safety_manager") = reserve_safety_manager
    /\ Script("safety.vault_safety_mode") = vault_safety_mode
    /\ Script("safety.register") = safety_register
    /\ Script("vaults.set_fees") = set_fees
    /\ Script("vaults.set_vaults") = set_vaults
    /\ \A symbol \in GenericSymbols : Script(symbol) = generic(symbol)
    /\ \A symbol \in BalancerSymbols : Script(symbol) = balancer(symbol)
BY DEF Script, GenericSymbols, BalancerSymbols

LEMMA Singles ==
    ASSUME NEW a, NEW b, NEW c
    PROVE  /\ IsSequence(<<>>) /\ IsSequence(<<a>>) /\ IsSequence(<<a, b>>)
           /\ IsSequence(<<a, b, c>>)
           /\ <<>> \o <<a>> = <<a>> /\ <<a>> \o <<>> = <<a>>
           /\ <<a>> \o <<b>> = <<a, b>>
           /\ <<a>> \o <<b, c>> = <<a, b, c>>
<1>1. IsSequence(<<>>) /\ IsSequence(<<a>>) /\ IsSequence(<<a, b>>) /\ IsSequence(<<a, b, c>>)
    BY DEF IsSequence
<1>. DEFINE A == {a, b, c}
<1>2. <<>> \in Seq(A) /\ <<a>> \in Seq(A) /\ <<b>> \in Seq(A) /\ <<b, c>> \in Seq(A)
      /\ <<a, b>> \in Seq(A) /\ <<a, b, c>> \in Seq(A)
    OBVIOUS
<1>. HIDE DEF A
<1>3. <<>> \o <<a>> = <<a>> /\ <<a>> \o <<>> = <<a>>  BY <1>2, ConcatEmptySeq
<1>4. <<a>> \o <<b>> = <<a, b>>
    <2>. DEFINE s == <<a>> \o <<b>>
    <2>1. s \in Seq(A) /\ Len(s) = 2 /\ s[1] = a /\ s[2] = b
        BY <1>2, ConcatProperties
    <2>. HIDE DEF s
    <2>2. \A i \in 1..Len(s) : s[i] = <<a, b>>[i]  BY <2>1
    <2>. QED  BY <1>2, <2>1, <2>2, SeqEqual DEF s
<1>5. <<a>> \o <<b, c>> = <<a, b, c>>
    <2>. DEFINE s == <<a>> \o <<b, c>>
    <2>1. s \in Seq(A) /\ Len(s) = 3 /\ s[1] = a /\ s[2] = b /\ s[3] = c
        BY <1>2, ConcatProperties
    <2>. HIDE DEF s
    <2>2. \A i \in 1..Len(s) : s[i] = <<a, b, c>>[i]  BY <2>1
    <2>. QED  BY <1>2, <2>1, <2>2, SeqEqual DEF s
<1>. QED  BY <1>1, <1>3, <1>4, <1>5

LEMMA RulesJoined ==
    ASSUME NEW name, NEW s, NEW t, IsSequence(s), IsSequence(t),
           RulesOf(name, s), RulesOf(name, t)
    PROVE  RulesOf(name, s \o t)
<1>1. \A i \in DOMAIN (s \o t) : \/ \E j \in DOMAIN s : (s \o t)[i] = s[j]
                                 \/ \E j \in DOMAIN t : (s \o t)[i] = t[j]
    BY Joined
<1>. QED  BY <1>1 DEF RulesOf

\* The rules of a script: as_singleton once at most, for what the script deploys.
LEMMA RulesAre ==
    ASSUME NEW name
    PROVE  /\ RulesOf(name, <<>>)
           /\ RulesOf(name, NeedsGovernedConfig)
           /\ \A a, b, c, d :
                 /\ RulesOf(name, <<Deployed(a)>>)
                 /\ RulesOf(name, <<Deployed(a), Deployed(b)>>)
                 /\ RulesOf(name, <<Deployed(a), Deployed(b), Deployed(c)>>)
                 /\ RulesOf(name, <<Deployed(a), Deployed(b), Deployed(c), Deployed(d)>>)
           /\ \A s \in DOMAIN Makers : Makers[s] = name =>
                 /\ RulesOf(name, <<Singleton(s)>>)
                 /\ \A a, b, c :
                        /\ RulesOf(name, <<Singleton(s), Deployed(a)>>)
                        /\ RulesOf(name, <<Deployed(a), Singleton(s)>>)
                        /\ RulesOf(name, <<Singleton(s), Deployed(a), Deployed(b)>>)
                        /\ RulesOf(name, <<Singleton(s), Deployed(a), Deployed(b), Deployed(c)>>)
                 /\ RulesOf(name, <<Singleton(s)>> \o NeedsGovernedConfig)
<1>. HIDE DEF Makers
<1>1. ASSUME NEW a, NEW b, NEW c, NEW d
      PROVE  /\ RulesOf(name, <<Deployed(a)>>)
             /\ RulesOf(name, <<Deployed(a), Deployed(b)>>)
             /\ RulesOf(name, <<Deployed(a), Deployed(b), Deployed(c)>>)
             /\ RulesOf(name, <<Deployed(a), Deployed(b), Deployed(c), Deployed(d)>>)
    BY RuleKinds DEF RulesOf
<1>2. ASSUME NEW s \in DOMAIN Makers, Makers[s] = name, NEW a, NEW b, NEW c
      PROVE  /\ RulesOf(name, <<Singleton(s)>>)
             /\ RulesOf(name, <<Singleton(s), Deployed(a)>>)
             /\ RulesOf(name, <<Deployed(a), Singleton(s)>>)
             /\ RulesOf(name, <<Singleton(s), Deployed(a), Deployed(b)>>)
             /\ RulesOf(name, <<Singleton(s), Deployed(a), Deployed(b), Deployed(c)>>)
    BY <1>2, RuleKinds DEF RulesOf
<1>3. RulesOf(name, NeedsGovernedConfig) /\ IsSequence(NeedsGovernedConfig)
    BY <1>1, Singles DEF NeedsGovernedConfig
<1>4. ASSUME NEW s \in DOMAIN Makers, Makers[s] = name
      PROVE  RulesOf(name, <<Singleton(s)>> \o NeedsGovernedConfig)
    <2>1. RulesOf(name, <<Singleton(s)>>) /\ IsSequence(<<Singleton(s)>>)
        BY <1>2, <1>4, Singles
    <2>. QED  BY <1>3, <2>1, RulesJoined
<1>5. RulesOf(name, <<>>)  BY DEF RulesOf
<1>. QED  BY <1>1, <1>2, <1>3, <1>4, <1>5

\* Its steps, when it is a deployment, with or without a key;
LEMMA DeployScript ==
    ASSUME NEW name, NEW rules, RulesOf(name, rules), NEW c, NEW g, NEW keys, NEW cs,
           c \in DOMAIN Makers => Makers[c] = name
    PROVE  /\ StepsOf(name, <<Deploy(c, g, keys, cs)>>)
           /\ ScriptOf(name, Steps(rules, <<Deploy(c, g, keys, cs)>>))
           /\ \A k \in AddressKeys :
                  /\ StepsOf(name, DeployAndSetKey(c, g, keys, cs, k))
                  /\ ScriptOf(name, Steps(rules, DeployAndSetKey(c, g, keys, cs, k)))
<1>. DEFINE a == Deploy(c, g, keys, cs)
<1>1. StepOf(name, a) /\ a.op = "deploy"  BY DeployKind
<1>. HIDE DEF a
<1>2. StepsOf(name, <<a>>)  BY <1>1, OneStep
<1>3. ASSUME NEW k \in AddressKeys, NEW b
      PROVE  StepsOf(name, <<a, SetAddress(k, b)>>)
    BY <1>1, StepKinds, TwoSteps DEF Lonely
<1>. QED  BY <1>2, <1>3 DEF ScriptOf, Steps, DeployAndSetKey, a

\* a proxy, with or without a key;
LEMMA ProxyScript ==
    ASSUME NEW name, NEW impl, NEW g, NEW l
    PROVE  /\ deploy_proxy(impl, g, "", l, FALSE) = <<DeployProxy(impl, g, l)>>
           /\ StepsOf(name, deploy_proxy(impl, g, "", l, FALSE))
           /\ \A k \in AddressKeys :
                /\ deploy_proxy(impl, g, k, l, FALSE)
                     = <<DeployProxy(impl, g, l), SetAddress(k, NewProxy(impl.contract))>>
                /\ StepsOf(name, deploy_proxy(impl, g, k, l, FALSE))
           /\ deploy_proxy(impl, g, "", l, TRUE)
                = <<DeployProxy(impl, g, l), Overwrite(impl, NewProxy(impl.contract))>>
<1>. DEFINE a == DeployProxy(impl, g, l)
            o == Overwrite(impl, NewProxy(impl.contract))
            set(k) == SetAddress(k, NewProxy(impl.contract))
<1>1. StepOf(name, a) /\ a.op = "proxy"  BY ProxyKinds
<1>2. deploy_proxy(impl, g, "", l, FALSE) = <<a>> \o <<>> \o <<>>  BY DEF deploy_proxy
<1>3. deploy_proxy(impl, g, "", l, TRUE) = <<a>> \o <<>> \o <<o>>  BY DEF deploy_proxy
<1>4. ASSUME NEW k \in AddressKeys
      PROVE  deploy_proxy(impl, g, k, l, FALSE) = <<a>> \o <<set(k)>> \o <<>>
    <2>1. k # ""  BY DEF AddressKeys, Roles, Treasuries
    <2>. QED  BY <2>1 DEF deploy_proxy
<1>5. ASSUME NEW k \in AddressKeys
      PROVE  StepOf(name, set(k)) /\ set(k).op = "setKey"
    BY StepKinds
<1>. HIDE DEF a, o, set
<1>6. \A b : <<a>> \o <<>> \o <<b>> = <<a, b>> /\ <<a>> \o <<>> \o <<>> = <<a>>  BY Singles
<1>7. \A b : <<a>> \o <<b>> \o <<>> = <<a, b>>
    <2>. SUFFICES ASSUME NEW b PROVE <<a>> \o <<b>> \o <<>> = <<a, b>>  OBVIOUS
    <2>1. <<a, b>> \in Seq({a, b})  OBVIOUS
    <2>2. <<a, b>> \o <<>> = <<a, b>>  BY <2>1, ConcatEmptySeq
    <2>. QED  BY <2>2, Singles
<1>8. StepsOf(name, <<a>>) /\ \A k \in AddressKeys : StepsOf(name, <<a, set(k)>>)
    BY <1>1, <1>5, OneStep, TwoSteps DEF Lonely
<1>. QED  BY <1>2, <1>3, <1>4, <1>6, <1>7, <1>8 DEF a, o, set

\* The scripts that deploy one contract,
LEMMA DeployScripts ==
    /\ ScriptOf("proxy_admin.main", proxy_admin_main)
    /\ ScriptOf("governance_proxy.main", governance_proxy_main)
    /\ ScriptOf("config.main", config_main)
    /\ ScriptOf("gyd_token.main", gyd_token_main)
    /\ ScriptOf("vault_registry.main", vault_registry_main)
    /\ ScriptOf("asset_registry.main", asset_registry_main)
    /\ ScriptOf("reserve.main", reserve_main)
    /\ ScriptOf("reserve.reserve_reader", reserve_reader)
    /\ ScriptOf("motherboard.main", motherboard_main)
    /\ ScriptOf("rate_manager.main", rate_manager_main)
    /\ ScriptOf("rate_manager.atoken_provider", atoken_provider)
    /\ ScriptOf("compound_rate_provider.main", compound_rate_provider_main)
    /\ ScriptOf("chainlink.main", chainlink_main)
    /\ ScriptOf("tellor.main", tellor_main)
    /\ ScriptOf("coinbase.main", coinbase_main)
    /\ ScriptOf("vault_price_oracle.cpmm", vault_price_oracle_cpmm)
    /\ ScriptOf("vault_price_oracle.g2clp", vault_price_oracle_g2clp)
    /\ ScriptOf("vault_price_oracle.g3clp", vault_price_oracle_g3clp)
    /\ ScriptOf("vault_price_oracle.eclp", vault_price_oracle_eclp)
    /\ ScriptOf("batch.main", batch_main)
    /\ ScriptOf("safety.reserve_safety_manager", reserve_safety_manager)
    /\ ScriptOf("safety.vault_safety_mode", vault_safety_mode)
<1>1. ScriptOf("proxy_admin.main", proxy_admin_main)
    BY RulesAre, DeployScript DEF proxy_admin_main, Makers
<1>2. ScriptOf("governance_proxy.main", governance_proxy_main)
    BY RulesAre, DeployScript DEF governance_proxy_main, Makers
<1>3. ScriptOf("config.main", config_main)
    BY RulesAre, DeployScript DEF config_main, Makers
<1>4. ScriptOf("gyd_token.main", gyd_token_main)
    BY RulesAre, DeployScript DEF gyd_token_main, Makers
<1>5. ScriptOf("vault_registry.main", vault_registry_main)
    BY RulesAre, DeployScript DEF vault_registry_main, Makers
<1>6. ScriptOf("asset_registry.main", asset_registry_main)
    BY RulesAre, DeployScript DEF asset_registry_main, Makers
<1>7. ScriptOf("reserve.main", reserve_main)
    BY RulesAre, DeployScript DEF reserve_main, Makers
<1>8. ScriptOf("reserve.reserve_reader", reserve_reader)
    BY RulesAre, DeployScript DEF reserve_reader, Makers
<1>9. ScriptOf("motherboard.main", motherboard_main)
    BY RulesAre, DeployScript DEF motherboard_main, Makers
<1>10. ScriptOf("rate_manager.main", rate_manager_main)
    BY RulesAre, DeployScript DEF rate_manager_main, Makers
<1>11. ScriptOf("rate_manager.atoken_provider", atoken_provider)
    BY RulesAre, DeployScript DEF atoken_provider, Makers
<1>12. ScriptOf("compound_rate_provider.main", compound_rate_provider_main)
    BY RulesAre, DeployScript DEF compound_rate_provider_main, Makers
<1>13. ScriptOf("chainlink.main", chainlink_main)
    BY RulesAre, DeployScript DEF chainlink_main, Makers
<1>14. ScriptOf("tellor.main", tellor_main)
    BY RulesAre, DeployScript DEF tellor_main, Makers
<1>15. ScriptOf("coinbase.main", coinbase_main)
    BY RulesAre, DeployScript DEF coinbase_main, Makers
<1>16. ScriptOf("vault_price_oracle.cpmm", vault_price_oracle_cpmm)
    BY RulesAre, DeployScript DEF vault_price_oracle_cpmm, Makers
<1>17. ScriptOf("vault_price_oracle.g2clp", vault_price_oracle_g2clp)
    BY RulesAre, DeployScript DEF vault_price_oracle_g2clp, Makers
<1>18. ScriptOf("vault_price_oracle.g3clp", vault_price_oracle_g3clp)
    BY RulesAre, DeployScript DEF vault_price_oracle_g3clp, Makers
<1>19. ScriptOf("vault_price_oracle.eclp", vault_price_oracle_eclp)
    BY RulesAre, DeployScript DEF vault_price_oracle_eclp, Makers
<1>20. ScriptOf("batch.main", batch_main)
    BY RulesAre, DeployScript DEF batch_main, Makers
<1>21. ScriptOf("safety.reserve_safety_manager", reserve_safety_manager)
    BY RulesAre, DeployScript DEF reserve_safety_manager, Makers
<1>22. ScriptOf("safety.vault_safety_mode", vault_safety_mode)
    BY RulesAre, DeployScript DEF vault_safety_mode, Makers
<1>. QED
    BY <1>1, <1>2, <1>3, <1>4, <1>5, <1>6, <1>7, <1>8, <1>9, <1>10, <1>11, <1>12, <1>13, <1>14, <1>15, <1>16, <1>17, <1>18, <1>19, <1>20, <1>21, <1>22

\* that deploy one and set its key,
LEMMA DeployAndSetKeyScripts ==
    /\ ScriptOf("reserve_manager.main", reserve_manager_main)
    /\ ScriptOf("pamm.main", pamm_main)
    /\ ScriptOf("fee_handler.main", fee_handler_main)
    /\ ScriptOf("safety.root", safety_root)
<1>1. ScriptOf("reserve_manager.main", reserve_manager_main)
    BY RulesAre, DeployScript DEF reserve_manager_main, Makers, AddressKeys, Roles
<1>2. ScriptOf("pamm.main", pamm_main)
    BY RulesAre, DeployScript DEF pamm_main, Makers, AddressKeys, Roles
<1>3. ScriptOf("fee_handler.main", fee_handler_main)
    BY RulesAre, DeployScript DEF fee_handler_main, Makers, AddressKeys, Roles
<1>4. ScriptOf("safety.root", safety_root)
    BY RulesAre, DeployScript DEF safety_root, Makers, AddressKeys, Roles
<1>. QED  BY <1>1, <1>2, <1>3, <1>4

\* that put a proxy in front of one,
LEMMA ProxyScripts ==
    /\ ScriptOf("config.proxy", config_proxy)
    /\ ScriptOf("gyd_token.proxy", gyd_token_proxy)
    /\ ScriptOf("vault_registry.proxy", vault_registry_proxy)
    /\ ScriptOf("asset_registry.proxy", asset_registry_proxy)
    /\ ScriptOf("reserve.proxy", reserve_proxy)
<1>. "GYD_TOKEN" \in AddressKeys /\ "VAULT_REGISTRY" \in AddressKeys
     /\ "ASSET_REGISTRY" \in AddressKeys /\ "RESERVE" \in AddressKeys
    BY DEF AddressKeys, Roles
<1>1. ScriptOf("config.proxy", config_proxy)
    BY RulesAre, ProxyScript DEF config_proxy, ScriptOf, Steps
<1>2. ScriptOf("gyd_token.proxy", gyd_token_proxy)
    BY RulesAre, ProxyScript DEF gyd_token_proxy, ScriptOf, Steps
<1>3. ScriptOf("vault_registry.proxy", vault_registry_proxy)
    BY RulesAre, ProxyScript DEF vault_registry_proxy, ScriptOf, Steps
<1>4. ScriptOf("asset_registry.proxy", asset_registry_proxy)
    BY RulesAre, ProxyScript DEF asset_registry_proxy, ScriptOf, Steps
<1>5. ScriptOf("reserve.proxy", reserve_proxy)
    BY RulesAre, ProxyScript DEF reserve_proxy, ScriptOf, Steps
<1>. QED  BY <1>1, <1>2, <1>3, <1>4, <1>5

\* Steps that deploy nothing.
PlainSteps(name, steps) ==
    IsSequence(steps) /\ \A i \in DOMAIN steps : StepOf(name, steps[i]) /\ Plain(steps[i])

LEMMA PlainAreSteps ==
    ASSUME NEW name, NEW s, PlainSteps(name, s)
    PROVE  StepsOf(name, s)
BY DEF PlainSteps, StepsOf, Plain, Lonely

LEMMA PlainKinds ==
    ASSUME NEW name
    PROVE  /\ PlainSteps(name, <<>>)
           /\ \A a : StepOf(name, a) /\ Plain(a) => PlainSteps(name, <<a>>)
           /\ \A a, b : StepOf(name, a) /\ Plain(a) /\ StepOf(name, b) /\ Plain(b)
                        => PlainSteps(name, <<a, b>>)
           /\ \A a, b, c : /\ StepOf(name, a) /\ Plain(a) /\ StepOf(name, b) /\ Plain(b)
                           /\ StepOf(name, c) /\ Plain(c)
                           => PlainSteps(name, <<a, b, c>>)
<1>1. PlainSteps(name, <<>>)  BY DEF PlainSteps, IsSequence
<1>2. ASSUME NEW a, StepOf(name, a), Plain(a)
      PROVE  PlainSteps(name, <<a>>)
    BY <1>2 DEF PlainSteps, IsSequence
<1>3. ASSUME NEW a, NEW b, StepOf(name, a), Plain(a), StepOf(name, b), Plain(b)
      PROVE  PlainSteps(name, <<a, b>>)
    BY <1>3 DEF PlainSteps, IsSequence
<1>4. ASSUME NEW a, NEW b, NEW c, StepOf(name, a), Plain(a), StepOf(name, b), Plain(b),
             StepOf(name, c), Plain(c)
      PROVE  PlainSteps(name, <<a, b, c>>)
    BY <1>4 DEF PlainSteps, IsSequence
<1>. QED  BY <1>1, <1>2, <1>3, <1>4

LEMMA PlainJoined ==
    ASSUME NEW name, NEW s, NEW t, PlainSteps(name, t), StepsOf(name, s)
    PROVE  StepsOf(name, s \o t) /\ StepsOf(name, t \o s)
BY StepsJoined, PlainAreSteps DEF PlainSteps

\* One call for each element of a sequence.
LEMMA SameLength ==
    ASSUME NEW s, IsSequence(s), NEW t, DOMAIN t = DOMAIN s, t = [i \in DOMAIN s |-> t[i]]
    PROVE  IsSequence(t)
<1>1. Len(s) \in Nat /\ DOMAIN s = 1..Len(s)  BY LengthOf
<1>2. t \in [1..Len(s) -> {t[i] : i \in DOMAIN t}]  BY <1>1
<1>. QED  BY <1>1, <1>2, IsASeq DEF IsSequence

LEMMA TwelveFinite ==
    ASSUME NEW a, NEW b, NEW c, NEW d, NEW e, NEW f, NEW g, NEW h, NEW i, NEW j, NEW k, NEW l
    PROVE  IsFiniteSet({a, b, c, d, e, f, g, h, i, j, k, l})
<1>1. \A x, y, z : IsFiniteSet({x, y, z})
    <2>. SUFFICES ASSUME NEW x, NEW y, NEW z PROVE IsFiniteSet({x, y, z})  OBVIOUS
    <2>1. {x, y, z} = (({} \union {x}) \union {y}) \union {z}  OBVIOUS
    <2>2. IsFiniteSet({} \union {x})  BY FS_EmptySet, FS_AddElement
    <2>3. IsFiniteSet(({} \union {x}) \union {y})  BY <2>2, FS_AddElement
    <2>4. IsFiniteSet((({} \union {x}) \union {y}) \union {z})  BY <2>3, FS_AddElement
    <2>. QED  BY <2>1, <2>4
<1>2. {a, b, c, d, e, f, g, h, i, j, k, l}
        = (({a, b, c} \union {d, e, f}) \union {g, h, i}) \union {j, k, l}
    OBVIOUS
<1>3. IsFiniteSet({a, b, c} \union {d, e, f})  BY <1>1, FS_Union
<1>4. IsFiniteSet(({a, b, c} \union {d, e, f}) \union {g, h, i})  BY <1>1, <1>3, FS_Union
<1>5. IsFiniteSet((({a, b, c} \union {d, e, f}) \union {g, h, i}) \union {j, k, l})
    BY <1>1, <1>4, FS_Union
<1>. QED  BY <1>2, <1>5

\* that make calls or print them,
LEMMA CallScripts ==
    /\ ScriptOf("config.set_initial_config", set_initial_config)
    /\ ScriptOf("asset_registry.initialize", asset_registry_initialize)
    /\ ScriptOf("asset_registry.set_asset_ranges", set_asset_ranges)
    /\ ScriptOf("rate_manager.set_rate_providers", set_rate_providers)
    /\ ScriptOf("chainlink.set_feeds", set_feeds)
    /\ ScriptOf("checked.initialize", checked_initialize)
    /\ ScriptOf("vault_price_oracle.generic", vault_price_oracle_generic)
    /\ ScriptOf("batch.initialize", batch_initialize)
    /\ ScriptOf("safety.register", safety_register)
    /\ ScriptOf("vaults.set_vaults", set_vaults)
<1>1. ASSUME NEW name, NEW l \in {"assets", "stable", "ranges"}, NEW names, IsSequence(names)
      PROVE  PlainSteps(name, OnAssets(l, names))
    <2>. DEFINE t == OnAssets(l, names)
    <2>1. DOMAIN t = DOMAIN names /\ \A i \in DOMAIN names : t[i] = CallAsset(l, names[i])
        BY DEF OnAssets
    <2>2. t = [i \in DOMAIN names |-> t[i]]  BY DEF OnAssets
    <2>. HIDE DEF t
    <2>3. IsSequence(t)  BY <1>1, <2>1, <2>2, SameLength
    <2>4. \A i \in DOMAIN t : StepOf(name, t[i]) /\ Plain(t[i])
        BY <2>1, StepKinds DEF Plain
    <2>. QED  BY <2>3, <2>4 DEF PlainSteps, t
<1>2. \A name, batch : PlainSteps(name, <<PrintCalls(batch)>>)
    BY StepKinds, PlainKinds DEF Plain
<1>3. ScriptOf("config.set_initial_config", set_initial_config)
    <2>1. "BALANCER_VAULT" \in AddressKeys  BY DEF AddressKeys
    <2>2. \A name, a : PlainSteps(name, <<SetAddress("BALANCER_VAULT", a)>>)
        BY <2>1, StepKinds, PlainKinds DEF Plain
    <2>. QED  BY <2>2, PlainAreSteps, RulesAre DEF set_initial_config, ScriptOf, Steps
<1>4. ScriptOf("asset_registry.initialize", asset_registry_initialize)
    <2>. DEFINE name == "asset_registry.initialize"
                s == <<"ETH", "WETH", "DAI", "WBTC", "USDC", "USDT", "USDP", "GUSD", "LUSD",
                       "crvUSD">>
                t == <<"USDT", "USDC", "DAI">>
    <2>1. IsSequence(s) /\ IsSequence(t)  BY DEF IsSequence
    <2>. HIDE DEF s, t
    <2>2. StepsOf(name, OnAssets("assets", s) \o OnAssets("stable", t))
        BY <1>1, <2>1, PlainJoined, PlainAreSteps
    <2>3. RulesOf(name, NeedsAssetRegistry)  BY RulesAre DEF NeedsAssetRegistry
    <2>. QED  BY <2>2, <2>3 DEF asset_registry_initialize, ScriptOf, Steps, s, t
<1>5. ScriptOf("asset_registry.set_asset_ranges", set_asset_ranges)
    <2>. DEFINE name == "asset_registry.set_asset_ranges"
                s == <<"USDC", "USDP", "GUSD", "USDT", "DAI", "LUSD", "crvUSD">>
    <2>1. IsSequence(s)  BY DEF IsSequence
    <2>. HIDE DEF s
    <2>2. StepsOf(name, OnAssets("ranges", s))  BY <1>1, <2>1, PlainAreSteps
    <2>3. RulesOf(name, NeedsAssetRegistry)  BY RulesAre DEF NeedsAssetRegistry
    <2>. QED  BY <2>2, <2>3 DEF set_asset_ranges, ScriptOf, Steps, s
<1>6. ScriptOf("rate_manager.set_rate_providers", set_rate_providers)
    BY <1>2, PlainAreSteps, RulesAre DEF set_rate_providers, ScriptOf, Steps
<1>7. ScriptOf("chainlink.set_feeds", set_feeds)
    <2>. DEFINE name == "chainlink.set_feeds"
                oracle == Bound("ChainlinkPriceOracle")
                feeds == {a \in get_chainlink_feeds :
                              <<oracle, "feeds", Outsider(a)>> \notin lists}
                missing == InOrder(feeds)
                t == [i \in DOMAIN missing |->
                          Call(Governance, oracle, "feeds", Outsider(missing[i]))]
    <2>1. IsFiniteSet(feeds)
        <3>1. IsFiniteSet(get_chainlink_feeds)
            <4>1. IsFiniteSet({"ETH", "WETH", "DAI", "WBTC", "CRV", "USDC", "USDT", "crvUSD",
                               "USDP", "LUSD", "GUSD", "GUSD"})
                BY TwelveFinite
            <4>2. IsFiniteSet({"ETH", "WETH", "DAI", "WBTC", "USDC", "USDT", "WMATIC", "LINK",
                               "AAVE", "UNI", "TUSD", "BUSD"})
                BY TwelveFinite
            <4>. QED  BY <4>1, <4>2 DEF get_chainlink_feeds
        <3>. QED  BY <3>1, FS_Subset
    <2>. HIDE DEF feeds
    <2>2. IsSequence(missing)  BY <2>1, InOrderEnumerates DEF Enumerates
    <2>. HIDE DEF missing
    <2>3. IsSequence(t)  BY <2>2, SameLength
    <2>4. \A i \in DOMAIN t : StepOf(name, t[i]) /\ Plain(t[i])  BY StepKinds DEF Plain
    <2>. HIDE DEF t
    <2>5. StepsOf(name, t)  BY <2>3, <2>4, PlainAreSteps DEF PlainSteps
    <2>. QED  BY <2>5, RulesAre DEF set_feeds, ScriptOf, Steps, t, missing, feeds
<1>8. ScriptOf("checked.initialize", checked_initialize)
    BY <1>2, PlainAreSteps, RulesAre DEF checked_initialize, ScriptOf, Steps
<1>9. ScriptOf("vault_price_oracle.generic", vault_price_oracle_generic)
    <2>1. \A name : PlainSteps(name, <<Raise>>)  BY StepKinds, PlainKinds DEF Plain
    <2>. QED
        BY <2>1, PlainAreSteps, RulesAre DEF vault_price_oracle_generic, ScriptOf, Steps, Makers
<1>10. ScriptOf("batch.initialize", batch_initialize)
    <2>. DEFINE name == "batch.initialize"
                s == [i \in DOMAIN VaultOracles |-> Deployed(VaultOracles[i])]
                all == <<Deployed("BatchVaultPriceOracle")>> \o s \o <<Deployed("GyroConfig")>>
    <2>1. IsSequence(s) /\ RulesOf(name, s)
        <3>1. IsSequence(VaultOracles)  BY DEF IsSequence, VaultOracles
        <3>2. IsSequence(s)  BY <3>1, SameLength
        <3>. QED  BY <3>2, RuleKinds DEF RulesOf
    <2>. HIDE DEF s
    <2>2. \A c : IsSequence(<<Deployed(c)>>) /\ RulesOf(name, <<Deployed(c)>>)
        BY RuleKinds DEF RulesOf, IsSequence
    <2>3. IsSequence(<<Deployed("BatchVaultPriceOracle")>> \o s)
          /\ RulesOf(name, <<Deployed("BatchVaultPriceOracle")>> \o s)
        BY <2>1, <2>2, Joined, RulesJoined
    <2>4. RulesOf(name, all)  BY <2>2, <2>3, RulesJoined
    <2>. QED  BY <1>2, <2>4, PlainAreSteps DEF batch_initialize, ScriptOf, Steps, s
<1>11. ScriptOf("safety.register", safety_register)
    <2>1. \A name, r, a, b : PlainSteps(name, <<Call(Governance, r, "checks", a),
                                                Call(Governance, r, "checks", b)>>)
        BY StepKinds, PlainKinds DEF Plain
    <2>. QED  BY <2>1, PlainAreSteps, RulesAre DEF safety_register, ScriptOf, Steps
<1>12. ScriptOf("vaults.set_vaults", set_vaults)
    <2>1. \A name, m, batch : PlainSteps(name, <<PrintCalls(batch),
                                                 Call(Deployer, m, "vaults", NoAddress)>>)
        BY StepKinds, PlainKinds DEF Plain
    <2>. QED  BY <2>1, PlainAreSteps, RulesAre DEF set_vaults, ScriptOf, Steps
<1>. QED
    BY <1>3, <1>4, <1>5, <1>6, <1>7, <1>8, <1>9, <1>10, <1>11, <1>12

\* and the others: a deployment or a proxy with calls before or after.
LEMMA LongScripts ==
    /\ ScriptOf("governance_proxy.proxy", governance_proxy_proxy)
    /\ ScriptOf("motherboard.proxy", motherboard_proxy)
    /\ ScriptOf("stewardship.main", stewardship_main)
    /\ ScriptOf("gyd_recovery.main", gyd_recovery_main)
    /\ ScriptOf("checked.main", checked_main)
<1>. "MOTHERBOARD" \in AddressKeys /\ "STEWARDSHIP_INC" \in AddressKeys
     /\ "GYD_RECOVERY" \in AddressKeys
    BY DEF AddressKeys, Roles
<1>1. ScriptOf("governance_proxy.proxy", governance_proxy_proxy)
    <2>1. \A name, a, b : PlainSteps(name, <<TransferOwnership(a, b)>>)
        BY StepKinds, PlainKinds DEF Plain
    <2>. QED  BY <2>1, PlainJoined, ProxyScript, RulesAre
              DEF governance_proxy_proxy, ScriptOf, Steps
<1>2. ScriptOf("motherboard.proxy", motherboard_proxy)
    <2>1. \A name, a, b, l, e : PlainSteps(name, <<Call(a, b, l, e)>>)
        BY StepKinds, PlainKinds DEF Plain
    <2>. QED  BY <2>1, PlainJoined, ProxyScript, RulesAre
              DEF motherboard_proxy, ScriptOf, Steps
<1>3. ScriptOf("stewardship.main", stewardship_main)
    <2>. DEFINE name == "stewardship.main"
                t == <<SetUint("STEWARDSHIP_INC_DURATION"),
                       SetUint("STEWARDSHIP_INC_MAX_VIOLATIONS"),
                       SetUint("STEWARDSHIP_INC_MIN_CR")>>
                s == DeployAndSetKey("ReserveStewardshipIncentives", Multisig, {"GYD_TOKEN"},
                                     {"GyroConfig"}, "STEWARDSHIP_INC")
    <2>1. \A k \in {"STEWARDSHIP_INC_DURATION", "STEWARDSHIP_INC_MAX_VIOLATIONS",
                    "STEWARDSHIP_INC_MIN_CR"} : k \in NumberKeys /\ k \notin AddressKeys
        BY DEF NumberKeys, AddressKeys, Roles, Treasuries
    <2>2. PlainSteps(name, t)  BY <2>1, StepKinds, PlainKinds DEF Plain
    <2>3. StepsOf(name, s)
        <3>1. RulesOf(name, <<>>)  BY RulesAre
        <3>. QED  BY <3>1, DeployScript DEF Makers
    <2>. HIDE DEF s, t
    <2>4. StepsOf(name, s \o t)  BY <2>2, <2>3, PlainJoined
    <2>. QED  BY <2>4, RulesAre DEF stewardship_main, ScriptOf, Steps, s, t
<1>4. ScriptOf("gyd_recovery.main", gyd_recovery_main)
    <2>. DEFINE name == "gyd_recovery.main"
                r == IF HasGyfiToken /\ HasDaoTreasury THEN <<>> ELSE <<Raise>>
                t == <<SetUint("GYD_RECOVERY_TARGET_CR"), SetUint("GYD_RECOVERY_TRIGGER_CR")>>
                s == DeployAndSetKey("GydRecovery", Multisig, {"GYD_TOKEN"}, {"GyroConfig"},
                                     "GYD_RECOVERY")
    <2>1. \A k \in {"GYD_RECOVERY_TARGET_CR", "GYD_RECOVERY_TRIGGER_CR"} :
              k \in NumberKeys /\ k \notin AddressKeys
        BY DEF NumberKeys, AddressKeys, Roles, Treasuries
    <2>2. PlainSteps(name, t) /\ PlainSteps(name, r)
        BY <2>1, StepKinds, PlainKinds DEF Plain
    <2>3. StepsOf(name, s)
        <3>1. RulesOf(name, <<>>)  BY RulesAre
        <3>. QED  BY <3>1, DeployScript DEF Makers
    <2>. HIDE DEF r, s, t
    <2>4. StepsOf(name, r \o s)  BY <2>2, <2>3, PlainJoined
    <2>5. StepsOf(name, r \o s \o t)  BY <2>2, <2>4, PlainJoined
    <2>. QED  BY <2>5, RulesAre DEF gyd_recovery_main, ScriptOf, Steps, r, s, t
<1>5. ScriptOf("checked.main", checked_main)
    <2>. DEFINE name == "checked.main"
                r == IF IsLive \/ Bound("MockPriceOracle") # NoAddress
                     THEN <<>> ELSE <<Raise>>
                s == <<Deploy("CheckedPriceOracle", Governance, {}, {"ChainlinkPriceOracle"})>>
    <2>1. PlainSteps(name, r)  BY StepKinds, PlainKinds DEF Plain
    <2>2. StepsOf(name, s)
        <3>1. RulesOf(name, <<>>)  BY RulesAre
        <3>. QED  BY <3>1, DeployScript DEF Makers
    <2>. HIDE DEF r, s
    <2>3. StepsOf(name, r \o s)  BY <2>1, <2>2, PlainJoined
    <2>4. RulesOf(name, <<Singleton("CheckedPriceOracle"), Deployed("ChainlinkPriceOracle"),
                          Deployed("GovernanceProxy"), Deployed("RateManager")>>)
        BY RulesAre DEF Makers
    <2>. QED  BY <2>3, <2>4 DEF checked_main, ScriptOf, Steps, r, s
<1>. QED  BY <1>1, <1>2, <1>3, <1>4, <1>5

LEMMA VaultScripts ==
    ASSUME NEW symbol \in vaults, NEW c \in {"GenericVault", "BalancerPoolVault"}
    PROVE  ScriptOf(symbol, DeployVault(c, {"GyroConfig"}, symbol))
<1>. DEFINE a == Deploy(c, NoAddress, {}, {"GyroConfig"})
            impl == New(c)
            b == DeployProxy(impl, Multisig, symbol)
            o == Overwrite(impl, NewProxy(impl.contract))
<1>1. StepOf(symbol, a) /\ a.op = "deploy"
    <2>1. c \notin DOMAIN Makers  BY DEF Makers
    <2>. QED  BY <2>1, DeployKind
<1>2. impl.contract = c  BY DEF New, Address
<1>. HIDE DEF impl
<1>3. /\ StepOf(symbol, b) /\ b.op = "proxy" /\ b.at = NewProxy(impl.contract)
      /\ StepOf(symbol, o) /\ o.op = "overwrite" /\ o.proxy = NewProxy(impl.contract)
    <2>. DEFINE proxy == NewProxy(impl.contract)
    <2>1. proxy.contract = impl.contract  BY DEF NewProxy, Address
    <2>2. StepOf(symbol, b) /\ b.op = "proxy" /\ b.at = proxy  BY ProxyKinds
    <2>. HIDE DEF proxy
    <2>3. /\ StepOf(symbol, Overwrite(impl, proxy)) /\ Overwrite(impl, proxy).op = "overwrite"
          /\ Overwrite(impl, proxy).proxy = proxy
        BY <1>2, <2>1, ProxyKinds
    <2>. QED  BY <2>2, <2>3 DEF proxy
<1>4. deploy_proxy(impl, Multisig, "", symbol, TRUE) = <<b, o>>  BY ProxyScript
<1>. HIDE DEF a, b, o
<1>5. <<a>> \o <<b, o>> = <<a, b, o>>  BY Singles
<1>6. StepsOf(symbol, <<a, b, o>>)  BY <1>1, <1>3, ThreeSteps
<1>. QED  BY <1>4, <1>5, <1>6, RulesAre DEF DeployVault, ScriptOf, Steps, a, impl

LEMMA FeesScript ==
    ASSUME IsSequence(containers["GenericVault"]), IsSequence(containers["BalancerPoolVault"])
    PROVE  ScriptOf("vaults.set_fees", set_fees)
<1>. DEFINE name == "vaults.set_fees"
            all == _get_all_vault_addresses
            unknown == {i \in DOMAIN all : ~HasConfig(all[i])}
            known == IF unknown = {} THEN all ELSE SubSeq(all, 1, Min(unknown) - 1)
            s == [i \in DOMAIN known |->
                    Call(Governance, Bound("StaticPercentageFeeHandler"), "fees", known[i])]
            t == IF unknown = {} THEN <<>> ELSE <<Raise>>
<1>1. IsSequence(all)  BY Joined DEF _get_all_vault_addresses
<1>. HIDE DEF all
<1>2. Len(all) \in Nat /\ DOMAIN all = 1..Len(all)  BY <1>1, LengthOf
<1>3. IsSequence(known)
    <2>1. CASE unknown = {}  BY <1>1, <2>1
    <2>2. CASE unknown # {}
        <3>1. Min(unknown) \in 1..Len(all)
            <4>1. unknown \in SUBSET Nat  BY <1>2
            <4>2. Min(unknown) \in unknown
                <5>. HIDE DEF unknown
                <5>. QED  BY <2>2, <4>1, MinIsLeast
            <4>. QED  BY <1>2, <4>2
        <3>. HIDE DEF unknown
        <3>2. all \in Seq({all[i] : i \in DOMAIN all})  BY <1>1 DEF IsSequence
        <3>3. SubSeq(all, 1, Min(unknown) - 1) \in Seq({all[i] : i \in DOMAIN all})
            BY <1>2, <3>1, <3>2, SubSeqProperties
        <3>. QED  BY <2>2, <3>3, SequenceOfAny
    <2>. QED  BY <2>1, <2>2
<1>4. PlainSteps(name, t)  BY StepKinds, PlainKinds DEF Plain
<1>. HIDE DEF known
<1>5. PlainSteps(name, s)
    <2>1. IsSequence(s)  BY <1>3, SameLength
    <2>2. \A i \in DOMAIN s : StepOf(name, s[i]) /\ Plain(s[i])  BY StepKinds DEF Plain
    <2>. HIDE DEF s
    <2>. QED  BY <2>1, <2>2 DEF PlainSteps
<1>. HIDE DEF s, t
<1>6. StepsOf(name, s \o t)  BY <1>4, <1>5, PlainJoined, PlainAreSteps
<1>. QED  BY <1>6, RulesAre DEF set_fees, ScriptOf, Steps, s, t, known, all

LEMMA AllScripts ==
    ASSUME IsSequence(containers["GenericVault"]), IsSequence(containers["BalancerPoolVault"]),
           NEW name \in ScriptNames
    PROVE  ScriptOf(name, Script(name))
<1>1. ASSUME name \in vaults PROVE ScriptOf(name, Script(name))
    <2>1. CASE name \in GenericSymbols
        BY <1>1, <2>1, ScriptIs, VaultScripts DEF generic
    <2>2. CASE name \in BalancerSymbols
        BY <1>1, <2>2, ScriptIs, VaultScripts DEF balancer
    <2>. QED  BY <1>1, <2>1, <2>2 DEF vaults
<1>2. ScriptOf("vaults.set_fees", set_fees)  BY FeesScript
<1>3. ASSUME name \notin vaults PROVE ScriptOf(name, Script(name))
    BY <1>2, <1>3, ScriptIs, DeployScripts, DeployAndSetKeyScripts, ProxyScripts, CallScripts,
       LongScripts DEF ScriptNames
<1>. QED  BY <1>1, <1>3

-----------------------------------------------------------------------------
(* What the rules of the scripts mean.                                     *)

\* The scripts that cannot have started with an empty container, as far as the
\* proofs need it.
Relies == {<<"vault_registry.main", "GyroConfig">>, <<"coinbase.main", "GyroConfig">>}
          \union {<<Adoption[c], c>> : c \in DOMAIN Adoption}

HasRule(script, rule) == \E i \in DOMAIN script.rules : script.rules[i] = rule

LEMMA ReliesOnRule ==
    ASSUME NEW r \in Relies
    PROVE  HasRule(Script(r[1]), Deployed(r[2]))
<1>1. NeedsGovernedConfig[1] = Deployed("GyroConfig") /\ 1 \in DOMAIN NeedsGovernedConfig
    BY DEF NeedsGovernedConfig
<1>2. /\ HasRule(vault_registry_main, Deployed("GyroConfig"))
      /\ HasRule(coinbase_main, Deployed("GyroConfig"))
      /\ HasRule(governance_proxy_proxy, Deployed("GovernanceProxy"))
      /\ HasRule(gyd_token_proxy, Deployed("GydToken"))
    BY DEF HasRule, vault_registry_main, coinbase_main, governance_proxy_proxy,
           gyd_token_proxy, Steps
<1>3. HasRule(config_proxy, Deployed("GyroConfig"))
    BY <1>1 DEF HasRule, config_proxy, Steps
<1>. QED  BY <1>2, <1>3, ScriptIs DEF Relies, Adoption

LEMMA RunsWithRule ==
    ASSUME NEW script, NEW c, HasRule(script, Deployed(c)), Verdict(script.rules) = "run"
    PROVE  containers[c] # <<>>
<1>1. PICK i \in DOMAIN script.rules : script.rules[i] = Deployed(c)  BY DEF HasRule
<1>2. \A j \in DOMAIN script.rules : ~Decides(script.rules[j])
    <2>1. "run" # "skip" /\ "run" # "abort"  OBVIOUS
    <2>. QED  BY <2>1 DEF Verdict
<1>. QED  BY <1>1, <1>2 DEF Decides, Deployed

\* The singleton of a script comes first, or after the configuration is known to
\* be deployed.
Guarded(script, c, before) ==
    \E i \in DOMAIN script.rules :
        /\ script.rules[i] = Singleton(c)
        /\ \A j \in 1..(i - 1) : j \in DOMAIN script.rules
        /\ \A j \in 1..(i - 1) : before /\ script.rules[j] = Deployed("GyroConfig")

LEMMA GuardedFirst ==
    ASSUME NEW steps, NEW c
    PROVE  /\ Guarded(Steps(<<Singleton(c)>>, steps), c, FALSE)
           /\ Guarded(Steps(<<Singleton(c)>> \o NeedsGovernedConfig, steps), c, FALSE)
           /\ \A a : Guarded(Steps(<<Singleton(c), Deployed(a)>>, steps), c, FALSE)
           /\ \A a, b : Guarded(Steps(<<Singleton(c), Deployed(a), Deployed(b)>>, steps),
                                c, FALSE)
           /\ \A a, b, d :
                  Guarded(Steps(<<Singleton(c), Deployed(a), Deployed(b), Deployed(d)>>,
                                steps), c, FALSE)
<1>1. \A rules : rules[1] = Singleton(c) /\ 1 \in DOMAIN rules
          => Guarded(Steps(rules, steps), c, FALSE)
    BY DEF Guarded, Steps
<1>2. <<Singleton(c)>> \o NeedsGovernedConfig
          = <<Singleton(c), Deployed("GyroConfig"), Deployed("GovernanceProxy")>>
    BY Singles DEF NeedsGovernedConfig
<1>3. ASSUME NEW a, NEW b, NEW d, NEW first
      PROVE  /\ <<first>>[1] = first /\ 1 \in DOMAIN <<first>>
             /\ <<first, a>>[1] = first /\ 1 \in DOMAIN <<first, a>>
             /\ <<first, a, b>>[1] = first /\ 1 \in DOMAIN <<first, a, b>>
             /\ <<first, a, b, d>>[1] = first /\ 1 \in DOMAIN <<first, a, b, d>>
    OBVIOUS
<1>4. ASSUME NEW a, NEW b, NEW d
      PROVE  /\ Guarded(Steps(<<Singleton(c)>>, steps), c, FALSE)
             /\ Guarded(Steps(<<Singleton(c), Deployed(a)>>, steps), c, FALSE)
             /\ Guarded(Steps(<<Singleton(c), Deployed(a), Deployed(b)>>, steps), c, FALSE)
             /\ Guarded(Steps(<<Singleton(c), Deployed(a), Deployed(b), Deployed(d)>>,
                              steps), c, FALSE)
    BY <1>1, <1>3
<1>. QED  BY <1>2, <1>4

LEMMA GuardedSecond ==
    ASSUME NEW steps, NEW c
    PROVE  Guarded(Steps(<<Deployed("GyroConfig"), Singleton(c)>>, steps), c, TRUE)
BY DEF Guarded, Steps

LEMMA MakersGuarded ==
    ASSUME NEW c \in DOMAIN Makers
    PROVE  Guarded(Script(Makers[c]), c, <<Makers[c], "GyroConfig">> \in Relies)
<1>2. /\ Guarded(reserve_manager_main, "ReserveManager", FALSE)
      /\ Guarded(pamm_main, "PrimaryAMMV1", FALSE)
      /\ Guarded(safety_root, "RootSafetyCheck", FALSE)
      /\ Guarded(vault_safety_mode, "VaultSafetyMode", FALSE)
    BY GuardedFirst
    DEF reserve_manager_main, pamm_main, safety_root, vault_safety_mode
<1>3. /\ Guarded(proxy_admin_main, "ProxyAdmin", FALSE)
      /\ Guarded(governance_proxy_main, "GovernanceProxy", FALSE)
      /\ Guarded(config_main, "GyroConfig", FALSE)
      /\ Guarded(gyd_token_main, "GydToken", FALSE)
      /\ Guarded(asset_registry_main, "AssetRegistry", FALSE)
      /\ Guarded(reserve_main, "Reserve", FALSE)
      /\ Guarded(reserve_reader, "ReserveSystemRead", FALSE)
    BY GuardedFirst
    DEF proxy_admin_main, governance_proxy_main, config_main, gyd_token_main,
        asset_registry_main, reserve_main, reserve_reader
<1>4. /\ Guarded(chainlink_main, "ChainlinkPriceOracle", FALSE)
      /\ Guarded(tellor_main, "TellorOracle", FALSE)
      /\ Guarded(checked_main, "CheckedPriceOracle", FALSE)
      /\ Guarded(vault_price_oracle_generic, "GenericVaultPriceOracle", FALSE)
      /\ Guarded(vault_price_oracle_cpmm, "BalancerCPMMPriceOracle", FALSE)
      /\ Guarded(batch_main, "BatchVaultPriceOracle", FALSE)
      /\ Guarded(reserve_safety_manager, "ReserveSafetyManager", FALSE)
    BY GuardedFirst
    DEF chainlink_main, tellor_main, checked_main, vault_price_oracle_generic,
        vault_price_oracle_cpmm, batch_main, reserve_safety_manager
<1>5. /\ Guarded(vault_registry_main, "VaultRegistry", TRUE)
      /\ Guarded(coinbase_main, "TrustedSignerPriceOracle", TRUE)
    BY GuardedSecond DEF vault_registry_main, coinbase_main
<1>6. \A script, a, b : Guarded(script, a, FALSE) => Guarded(script, a, b)  BY DEF Guarded
<1>7. /\ <<"vault_registry.main", "GyroConfig">> \in Relies
      /\ <<"coinbase.main", "GyroConfig">> \in Relies
    BY DEF Relies
<1>8. CASE c \in {"VaultRegistry", "TrustedSignerPriceOracle"}
    <2>1. /\ Makers["VaultRegistry"] = "vault_registry.main"
          /\ Makers["TrustedSignerPriceOracle"] = "coinbase.main"
        BY DEF Makers
    <2>2. /\ Script("vault_registry.main") = vault_registry_main
          /\ Script("coinbase.main") = coinbase_main
        BY ScriptIs
    <2>. HIDE DEF Makers, Relies, Guarded
    <2>. QED  BY <1>5, <1>7, <1>8, <2>1, <2>2
<1>9. CASE c \notin {"VaultRegistry", "TrustedSignerPriceOracle"}
    <2>. HIDE DEF Relies, Guarded
    <2>1. Guarded(Script(Makers[c]), c, FALSE)
        <3>1. CASE c \in {"ReserveManager", "PrimaryAMMV1", "RootSafetyCheck",
                          "VaultSafetyMode"}
            <4>1. /\ Makers["ReserveManager"] = "reserve_manager.main"
                  /\ Makers["PrimaryAMMV1"] = "pamm.main"
                  /\ Makers["RootSafetyCheck"] = "safety.root"
                  /\ Makers["VaultSafetyMode"] = "safety.vault_safety_mode"
                BY DEF Makers
            <4>2. /\ Script("reserve_manager.main") = reserve_manager_main
                  /\ Script("pamm.main") = pamm_main
                  /\ Script("safety.root") = safety_root
                  /\ Script("safety.vault_safety_mode") = vault_safety_mode
                BY ScriptIs
            <4>. HIDE DEF Makers
            <4>. QED  BY <1>2, <3>1, <4>1, <4>2
        <3>2. CASE c \in {"ProxyAdmin", "GovernanceProxy", "GyroConfig", "GydToken",
                          "AssetRegistry", "Reserve", "ReserveSystemRead"}
            <4>1. /\ Makers["ProxyAdmin"] = "proxy_admin.main"
                  /\ Makers["GovernanceProxy"] = "governance_proxy.main"
                  /\ Makers["GyroConfig"] = "config.main"
                  /\ Makers["GydToken"] = "gyd_token.main"
                  /\ Makers["AssetRegistry"] = "asset_registry.main"
                  /\ Makers["Reserve"] = "reserve.main"
                  /\ Makers["ReserveSystemRead"] = "reserve.reserve_reader"
                BY DEF Makers
            <4>2. /\ Script("proxy_admin.main") = proxy_admin_main
                  /\ Script("governance_proxy.main") = governance_proxy_main
                  /\ Script("config.main") = config_main
                  /\ Script("gyd_token.main") = gyd_token_main
                  /\ Script("asset_registry.main") = asset_registry_main
                  /\ Script("reserve.main") = reserve_main
                  /\ Script("reserve.reserve_reader") = reserve_reader
                BY ScriptIs
            <4>. HIDE DEF Makers
            <4>. QED  BY <1>3, <3>2, <4>1, <4>2
        <3>3. CASE c \in {"ChainlinkPriceOracle", "TellorOracle", "CheckedPriceOracle",
                          "GenericVaultPriceOracle", "BalancerCPMMPriceOracle",
                          "BatchVaultPriceOracle", "ReserveSafetyManager"}
            <4>1. /\ Makers["ChainlinkPriceOracle"] = "chainlink.main"
                  /\ Makers["TellorOracle"] = "tellor.main"
                  /\ Makers["CheckedPriceOracle"] = "checked.main"
                  /\ Makers["GenericVaultPriceOracle"] = "vault_price_oracle.generic"
                  /\ Makers["BalancerCPMMPriceOracle"] = "vault_price_oracle.cpmm"
                  /\ Makers["BatchVaultPriceOracle"] = "batch.main"
                  /\ Makers["ReserveSafetyManager"] = "safety.reserve_safety_manager"
                BY DEF Makers
            <4>2. /\ Script("chainlink.main") = chainlink_main
                  /\ Script("tellor.main") = tellor_main
                  /\ Script("checked.main") = checked_main
                  /\ Script("vault_price_oracle.generic") = vault_price_oracle_generic
                  /\ Script("vault_price_oracle.cpmm") = vault_price_oracle_cpmm
                  /\ Script("batch.main") = batch_main
                  /\ Script("safety.reserve_safety_manager") = reserve_safety_manager
                BY ScriptIs
            <4>. HIDE DEF Makers
            <4>. QED  BY <1>4, <3>3, <4>1, <4>2
        <3>. QED  BY <1>9, <3>1, <3>2, <3>3 DEF Makers
    <2>. QED  BY <1>6, <2>1
<1>. QED  BY <1>8, <1>9

\* as_singleton skips a script whose container is not empty.
LEMMA GuardSkips ==
    ASSUME NEW script, NEW c, NEW before, Guarded(script, c, before),
           before => containers["GyroConfig"] # <<>>, containers[c] # <<>>
    PROVE  Verdict(script.rules) = "skip"
<1>1. PICK i \in DOMAIN script.rules :
          /\ script.rules[i] = Singleton(c)
          /\ \A j \in 1..(i - 1) : before /\ script.rules[j] = Deployed("GyroConfig")
    BY DEF Guarded
<1>2. Decides(script.rules[i]) /\ script.rules[i].kind = "skip"
    BY <1>1 DEF Decides, Singleton
<1>3. \A j \in 1..(i - 1) : ~Decides(script.rules[j])
    BY <1>1 DEF Decides, Deployed
<1>4. Stops(script.rules, i) /\ ~\A j \in DOMAIN script.rules : ~Decides(script.rules[j])
    BY <1>2, <1>3 DEF Stops
<1>. QED  BY <1>2, <1>4 DEF Verdict

\* When it skips a script, the script is the one that deploys what is there.
LEMMA SkipsMade ==
    ASSUME NEW name, NEW script, ScriptOf(name, script), Verdict(script.rules) = "skip"
    PROVE  \E c \in DOMAIN Makers : Makers[c] = name /\ containers[c] # <<>>
<1>1. PICK i \in DOMAIN script.rules : Stops(script.rules, i) /\ script.rules[i].kind = "skip"
    <2>1. "skip" # "run" /\ "skip" # "abort"  OBVIOUS
    <2>. QED  BY <2>1 DEF Verdict
<1>. QED  BY <1>1 DEF ScriptOf, RulesOf, RuleOf, Stops, Decides

\* The three scripts that deploy a proxy for the operator to list.
LEMMA AdoptionProxies ==
    ASSUME NEW c \in DOMAIN Adoption, Bound(c).contract = c
    PROVE  \E i \in DOMAIN Script(Adoption[c]).steps :
               /\ Script(Adoption[c]).steps[i].op = "proxy"
               /\ Script(Adoption[c]).steps[i].at.contract = c
<1>. DEFINE HasProxy(steps, x) == \E i \in DOMAIN steps : /\ steps[i].op = "proxy"
                                                         /\ steps[i].at.contract = x
<1>1. \A impl, g, l, t : /\ HasProxy(<<DeployProxy(impl, g, l)>>, impl.contract)
                         /\ HasProxy(<<DeployProxy(impl, g, l), t>>, impl.contract)
    BY DEF DeployProxy, NewProxy, Address
<1>2. ASSUME NEW impl, NEW g
      PROVE  deploy_proxy(impl, g, "", "", FALSE) = <<DeployProxy(impl, g, "")>>
    BY ProxyScript
<1>3. ASSUME NEW impl, NEW g
      PROVE  deploy_proxy(impl, g, "GYD_TOKEN", "", FALSE)
               = <<DeployProxy(impl, g, ""), SetAddress("GYD_TOKEN", NewProxy(impl.contract))>>
    <2>1. "GYD_TOKEN" \in AddressKeys  BY DEF AddressKeys, Roles
    <2>. HIDE DEF AddressKeys
    <2>. QED  BY <2>1, ProxyScript
<1>. HIDE DEF HasProxy
<1>4. HasProxy(governance_proxy_proxy.steps, Bound("GovernanceProxy").contract)
    <2>. DEFINE a == DeployProxy(Governance, Deployer, "")
                t == TransferOwnership(Bound("ProxyAdmin"), NewProxy("GovernanceProxy"))
    <2>1. governance_proxy_proxy.steps = <<a>> \o <<t>>
        BY <1>2 DEF governance_proxy_proxy, Steps
    <2>2. HasProxy(<<a, t>>, Governance.contract)  BY <1>1
    <2>. HIDE DEF a, t
    <2>3. <<a>> \o <<t>> = <<a, t>>  BY Singles
    <2>. QED  BY <2>1, <2>2, <2>3 DEF Governance
<1>5. HasProxy(config_proxy.steps, Bound("GyroConfig").contract)
    <2>1. config_proxy.steps = <<DeployProxy(Config, Governance, "")>>
        BY <1>2 DEF config_proxy, Steps
    <2>. QED  BY <1>1, <2>1 DEF Config
<1>6. HasProxy(gyd_token_proxy.steps, Bound("GydToken").contract)
    <2>. DEFINE impl == Bound("GydToken")
    <2>1. gyd_token_proxy.steps
            = <<DeployProxy(impl, Multisig, ""), SetAddress("GYD_TOKEN", NewProxy(impl.contract))>>
        BY <1>3 DEF gyd_token_proxy, Steps
    <2>. HIDE DEF impl
    <2>2. HasProxy(gyd_token_proxy.steps, impl.contract)  BY <1>1, <2>1
    <2>. QED  BY <2>2 DEF impl
<1>7. HasProxy(Script(Adoption[c]).steps, Bound(c).contract)
    BY <1>4, <1>5, <1>6, ScriptIs DEF Adoption
<1>. QED  BY <1>7 DEF HasProxy

\* What is left of a container when an address is taken out of it.
LEMMA FirstRemoved ==
    ASSUME NEW s, IsSequence(s), NEW e
    PROVE  /\ IsSequence(RemoveFirst(s, e))
           /\ \A i \in DOMAIN RemoveFirst(s, e) : \E j \in DOMAIN s : RemoveFirst(s, e)[i] = s[j]
<1>. DEFINE I == {i \in 1..Len(s) : s[i] = e}
            A == {s[i] : i \in DOMAIN s}
<1>1. Len(s) \in Nat /\ DOMAIN s = 1..Len(s) /\ s \in Seq(A)  BY LengthOf DEF IsSequence
<1>2. CASE I = {}
    <2>1. RemoveFirst(s, e) = s  BY <1>2 DEF RemoveFirst
    <2>. QED  BY <2>1
<1>3. CASE I # {}
    <2>. DEFINE m == Min(I)
    <2>1. m \in 1..Len(s)
        <3>1. I \in SUBSET Nat  OBVIOUS
        <3>. HIDE DEF I
        <3>2. m \in I  BY <1>3, <3>1, MinIsLeast
        <3>. QED  BY <3>2 DEF I
    <2>2. RemoveFirst(s, e) = SubSeq(s, 1, m - 1) \o SubSeq(s, m + 1, Len(s))
        BY <1>3 DEF RemoveFirst, RemoveAt, SelectInSeq
    <2>. HIDE DEF m, A
    <2>3. SubSeq(s, 1, m - 1) \in Seq(A) /\ SubSeq(s, m + 1, Len(s)) \in Seq(A)
        BY <1>1, <2>1, SubSeqProperties
    <2>4. RemoveFirst(s, e) \in Seq(A)  BY <2>2, <2>3, ConcatProperties
    <2>5. IsSequence(RemoveFirst(s, e)) /\ \A i \in DOMAIN RemoveFirst(s, e) :
                                               RemoveFirst(s, e)[i] \in A
        BY <2>4, SequenceOfAny
    <2>. QED  BY <2>5 DEF A
<1>. QED  BY <1>2, <1>3

-----------------------------------------------------------------------------
(* What always holds of the deployment.                                    *)

\* The operator: where he is in the plan, and what the history says of it.
PlanOK ==
    /\ next \in 1..(Len(Plan) + 1)
    /\ phase \in {"ready", "running", "reverted"}
    /\ handover \in {"none", "offered", "accepted"}
    /\ cuts \in 0..MaxCuts /\ retries \in 0..MaxRetries
    /\ phase # "ready" => next <= Len(Plan)
    /\ phase = "reverted" => Name \in reverted
    /\ handover # "none" => next > Len(Plan)
    /\ done \union reverted \union torn \subseteq {Plan[i] : i \in DOMAIN Plan}

Proxied(c) == Count(c, TRUE)
ProxyAt(c, n) == Address(c, n, TRUE)

\* The chain: the proxies of a contract are numbered without a gap.
ChainOK ==
    /\ IsFiniteSet(DOMAIN chain)
    /\ \A c \in Contracts : \A n \in 1..Proxied(c) : ProxyAt(c, n) \in DOMAIN chain

\* The containers list deployed addresses, each of the contract it is listed under.
ContainersOK ==
    /\ DOMAIN containers = Contracts
    /\ \A c \in Contracts :
          /\ IsSequence(containers[c])
          /\ \A i \in DOMAIN containers[c] :
                 containers[c][i] \in DOMAIN chain /\ containers[c][i].contract = c

\* The configuration: a key has one type, whoever sets it and however often.
ConfigOK ==
    /\ IsFiniteSet(DOMAIN config)
    /\ \A k \in DOMAIN config :
          /\ KeyTyped(k, config[k].type)
          /\ config[k] = [type |-> config[k].type, value |-> config[k].value,
                          frozen |-> config[k].frozen]
          /\ config[k].frozen \in BOOLEAN

\* Every registry is behind a proxy, and its stable assets are registered.
RegistriesOK ==
    \A a \in DOMAIN registries :
        /\ a.proxy
        /\ DOMAIN registries[a] = {"assets", "addresses", "stable", "ranges"}
        /\ registries[a].stable \subseteq registries[a].addresses

\* The steps a script has left: what it deploys gets the next free address, and an
\* implementation is swapped for a proxy that is there or comes first.
TodoOK ==
    /\ ~running => todo = <<>>
    /\ running =>
          /\ IsSequence(todo)
          /\ \A i \in DOMAIN todo : StepOf(Name, todo[i])
          /\ \A i, j \in DOMAIN todo : Lonely(todo[i]) /\ todo[i].op = todo[j].op => i = j
          /\ \A i \in DOMAIN todo : todo[i].op = "overwrite" =>
                 \/ todo[i].proxy \in DOMAIN chain
                 \/ \E j \in 1..(i - 1) : todo[j].op = "proxy" /\ todo[j].at = todo[i].proxy
          /\ \A r \in Relies : Name = r[1] => containers[r[2]] # <<>>

\* A contract is there because its script ran, or runs, or because the operator
\* deployed it after the script had failed.
MadeOK ==
    \A c \in DOMAIN Makers : containers[c] # <<>> =>
        \/ Makers[c] \in done \union reverted \union torn
        \/ running /\ Name = Makers[c]
        \/ c = "GenericVaultPriceOracle" /\ Makers[c] \in Passed

\* A proxy that the operator is to list is there, and what it is listed for.
AdoptionOK ==
    \A c \in DOMAIN Adoption :
        /\ Adoption[c] \in done \union reverted \union torn => containers[c] # <<>>
        /\ Adoption[c] \in done => Proxied(c) > 0
        /\ running /\ Name = Adoption[c] =>
              \/ Proxied(c) > 0
              \/ \E i \in DOMAIN todo : todo[i].op = "proxy" /\ todo[i].at.contract = c

DeployInv == /\ PlanOK /\ ChainOK /\ ContainersOK /\ ConfigOK /\ RegistriesOK /\ TodoOK
             /\ MadeOK /\ AdoptionOK /\ NothingLeftOut

-----------------------------------------------------------------------------
(* What always holds of a reader.                                          *)

\* The calls a script makes.
LookupOf(script, l) ==
    \/ l.call = "get" /\ l.caught = TRUE /\ KeyTyped(l.key, l.type)
    \/ l.call \in {"meta", "typed"} /\ l.caught = FALSE
    \/ l.call = "has" /\ l.caught = TRUE
    \/ /\ l.call = "named" /\ l.caught = FALSE
       /\ script = "check" /\ l.key \in KnownKeys /\ l.type = TypeByName(l.key)

\* The second call of a pair comes right after the first and nowhere else.
Paired(s) ==
    \A i \in DOMAIN s :
        /\ s[i].call = "meta" =>
              i + 1 \in DOMAIN s /\ s[i + 1].call = "typed" /\ s[i + 1].key = s[i].key
        /\ s[i].call = "has" =>
              i + 1 \in DOMAIN s /\ s[i + 1].call = "named" /\ s[i + 1].key = s[i].key
        /\ i + 1 \in DOMAIN s /\ s[i + 1].call \in {"typed", "named"} =>
              s[i].call \in {"meta", "has"}

\* A key that the reader takes for set is set, or was unset under it.
KnownOrUnset(key) == key \in DOMAIN config \union unsetSince

ReaderOK ==
    /\ reader \in DOMAIN Program \union {"none"}
    /\ state \in {"idle", "reading", "over", "dead"}
    /\ state # "idle" => Settled /\ next > Len(Plan)
    /\ state = "idle" => rows = EmptyConfig /\ changedSince = 0 /\ unsetSince = {}
    /\ state = "over" => lookups = <<>>
    /\ changes \in 0..MaxChanges /\ changedSince \in 0..changes

LookupsOK ==
    state = "reading" =>
        /\ IsSequence(lookups) /\ Paired(lookups)
        /\ \A i \in DOMAIN lookups :
              /\ LookupOf(reader, lookups[i])
              /\ lookups[i].call \in {"meta", "typed"} => KnownOrUnset(lookups[i].key)
        /\ lookups # <<>> =>
              /\ lookups[1].call = "named" => KnownOrUnset(lookups[1].key)
              /\ lookups[1].call = "typed" => lookups[1].key \in DOMAIN rows

\* A row has the type of its key; a frozen one holds, but for a value that the next
\* call brings.
RowsOK ==
    \A k \in DOMAIN rows :
        /\ KeyTyped(k, rows[k].type)
        /\ rows[k] = [type |-> rows[k].type, value |-> rows[k].value,
                      frozen |-> rows[k].frozen]
        /\ rows[k].frozen =>
              /\ HasKey(config, k) /\ config[k].frozen
              /\ \/ config[k].value = rows[k].value
                 \/ /\ state \in {"reading", "dead"} /\ lookups # <<>>
                    /\ lookups[1].call = "typed" /\ lookups[1].key = k

\* What the reader will have seen if governance does nothing more: the rows, and
\* the configuration for the keys it has not come by.
Ahead == {lookups[i].key : i \in DOMAIN lookups}

Seen == [k \in (DOMAIN rows \ Ahead) \union (DOMAIN config \cap Ahead) |->
            IF k \in Ahead THEN config[k] ELSE rows[k]]

\* Two configurations with the same values for some keys.
Agree(one, other, keys) ==
    \A k \in keys : /\ HasKey(one, k) <=> HasKey(other, k)
                    /\ HasKey(other, k) => one[k].value = other[k].value

KeysOf(setting) == {mk_pool_setting(setting, Scopes[i]) : i \in DOMAIN Scopes}

\* As long as governance changed nothing that is the configuration, and after one
\* change it still has the value in force before or after it.
SeenOK ==
    reader = "read" =>
        /\ state = "reading" =>
              /\ \A i, j \in DOMAIN lookups : lookups[i].key = lookups[j].key => i = j
              /\ \A i \in DOMAIN lookups : lookups[i].call = "get"
              /\ Ahead \cap DOMAIN rows = {}
              /\ \A s \in Settings :
                    /\ Effective(config, s) \in inForce[s]
                    /\ changedSince = 0 => Agree(Seen, config, KeysOf(s))
        /\ state \in {"reading", "over"} /\ changedSince <= 1 =>
              \A s \in Settings : Effective(Seen, s) \in inForce[s]

ReadersInv == DeployInv /\ ReaderOK /\ LookupsOK /\ RowsOK /\ SeenOK /\ DiesOnlyOf

-----------------------------------------------------------------------------
(* What the steps of the deployment do to what always holds.               *)

LEMMA CountIs ==
    ASSUME IsFiniteSet(DOMAIN chain), NEW c, NEW p
    PROVE  Count(c, p) \in Nat
BY FS_Subset, FS_CardinalityType DEF Count

LEMMA AddCounts ==
    ASSUME IsFiniteSet(DOMAIN chain), NEW a, NEW g, NEW kept, NEW l, Add(a, g, kept, l)
    PROVE  /\ DOMAIN chain' = DOMAIN chain \union {a}
           /\ IsFiniteSet(DOMAIN chain')
           /\ \A c, p :
                 /\ Count(c, p) \in Nat
                 /\ \/ Count(c, p)' = Count(c, p)
                    \/ /\ Count(c, p)' = Count(c, p) + 1
                       /\ a.contract = c /\ a.proxy = p
<1>1. DOMAIN chain' = DOMAIN chain \union {a}  BY DEF Add, Put
<1>2. IsFiniteSet(DOMAIN chain')  BY <1>1, FS_AddElement
<1>3. ASSUME NEW c, NEW p
      PROVE  /\ Count(c, p) \in Nat
             /\ \/ Count(c, p)' = Count(c, p)
                \/ Count(c, p)' = Count(c, p) + 1 /\ a.contract = c /\ a.proxy = p
    <2>. DEFINE S == {x \in DOMAIN chain : x.contract = c /\ x.proxy = p}
                T == {x \in DOMAIN chain' : x.contract = c /\ x.proxy = p}
    <2>1. IsFiniteSet(S)  BY FS_Subset
    <2>2. Count(c, p) = Cardinality(S) /\ Count(c, p)' = Cardinality(T)  BY DEF Count
    <2>3. \/ T = S
          \/ T = S \union {a} /\ a.contract = c /\ a.proxy = p
        BY <1>1
    <2>. HIDE DEF S, T
    <2>4. Cardinality(S) \in Nat  BY <2>1, FS_CardinalityType
    <2>. QED  BY <2>1, <2>2, <2>3, <2>4, FS_AddElement
<1>. QED  BY <1>1, <1>2, <1>3

\* The step that a script takes is one of its own.
LEMMA TakenStep ==
    ASSUME TodoOK, TakesStep
    PROVE  /\ Head(todo) = todo[1] /\ 1 \in DOMAIN todo /\ StepOf(Name, todo[1])
           /\ Executable(todo[1])
           /\ IsSequence(todo') /\ running /\ running'
           /\ \A i \in DOMAIN todo' : /\ i \in Nat /\ i > 0
                                      /\ i + 1 \in DOMAIN todo /\ todo'[i] = todo[i + 1]
<1>1. IsSequence(todo) /\ todo # <<>> /\ todo' = Tail(todo)  BY DEF TodoOK, TakesStep
<1>2. Head(todo) = todo[1] /\ 1 \in DOMAIN todo  BY <1>1, TailOf
<1>3. /\ IsSequence(Tail(todo))
      /\ \A i \in DOMAIN Tail(todo) : i + 1 \in DOMAIN todo /\ Tail(todo)[i] = todo[i + 1]
    BY <1>1, TailOf
<1>4. \A i \in DOMAIN todo' : i \in Nat /\ i > 0  BY <1>1, <1>3, LengthOf
<1>. QED  BY <1>1, <1>2, <1>3, <1>4 DEF TodoOK, TakesStep, running

LEMMA PlanLength == Len(Plan) \in Nat /\ DOMAIN Plan = 1..Len(Plan)
BY PlanAssumption

LEMMA PlanSteps ==
    ASSUME DeployInv, DeployNext
    PROVE  PlanOK'
<1>. USE PlanLength, PlanAssumption DEF PlanOK, plan, limits, history, Name, running
<1>i. PlanOK /\ TodoOK  BY DEF DeployInv
<1>1. ASSUME StartScript PROVE PlanOK'
    BY <1>1, <1>i DEF StartScript, Idle
<1>2. ASSUME SkipScript PROVE PlanOK'
    BY <1>2, <1>i DEF SkipScript, Idle
<1>3. ASSUME StepOfScript PROVE PlanOK'
    BY <1>3, <1>i DEF StepOfScript, DeployStep, ProxyStep, OverwriteStep, SetKeyStep, CallStep,
                      AssetStep, TransferStep, PrintStep, TakesStep
<1>4. ASSUME Finish PROVE PlanOK'
    BY <1>4, <1>i DEF Finish
<1>5. ASSUME Revert PROVE PlanOK'
    BY <1>5, <1>i DEF Revert
<1>6. ASSUME GoOn PROVE PlanOK'
    BY <1>6, <1>i DEF GoOn
<1>7. ASSUME DeployByHand PROVE PlanOK'
    BY <1>7, <1>i DEF DeployByHand
<1>8. ASSUME NEW c \in DOMAIN Adoption, Adopt(c) PROVE PlanOK'
    BY <1>8, <1>i DEF Adopt
<1>9. ASSUME Cut PROVE PlanOK'
    BY <1>9, <1>i DEF Cut
<1>10. ASSUME ChangeGovernor \/ AcceptGovernance PROVE PlanOK'
    BY <1>10, <1>i DEF ChangeGovernor, AcceptGovernance
<1>11. ASSUME NEW batch \in printed, GovernanceExecutes(batch) PROVE PlanOK'
    BY <1>11, <1>i DEF GovernanceExecutes
<1>. QED  BY <1>1, <1>2, <1>3, <1>4, <1>5, <1>6, <1>7, <1>8, <1>9, <1>10, <1>11
          DEF DeployNext, Progress

\* What an action leaves of the chain and of the containers.
LEMMA ChainSteps ==
    ASSUME DeployInv, DeployNext
    PROVE  ChainOK' /\ DOMAIN chain \subseteq DOMAIN chain'
           /\ \A c : Proxied(c) \in Nat /\ Proxied(c)' \in Nat /\ Proxied(c)' >= Proxied(c)
<1>i. ChainOK /\ TodoOK  BY DEF DeployInv
<1>. DEFINE Grows == \A c : /\ Proxied(c) \in Nat /\ Proxied(c)' \in Nat
                            /\ Proxied(c)' >= Proxied(c)
            Goal == ChainOK' /\ DOMAIN chain \subseteq DOMAIN chain' /\ Grows
<1>a. ASSUME DOMAIN chain' = DOMAIN chain PROVE Goal
    <2>1. \A c : Proxied(c)' = Proxied(c)  BY <1>a DEF Count, Proxied
    <2>2. \A c : Proxied(c) \in Nat  BY <1>i, CountIs DEF ChainOK, Proxied
    <2>3. \A c, n : ProxyAt(c, n)' = ProxyAt(c, n)  BY DEF ProxyAt, Address
    <2>. QED  BY <1>a, <1>i, <2>1, <2>2, <2>3 DEF ChainOK
<1>b. ASSUME NEW a, NEW g, NEW kept, NEW l, Add(a, g, kept, l),
             a.proxy = TRUE => a = NewProxy(a.contract)
      PROVE  Goal
    <2>1. /\ DOMAIN chain' = DOMAIN chain \union {a}
          /\ IsFiniteSet(DOMAIN chain')
          /\ \A c : /\ Proxied(c) \in Nat
                    /\ \/ Proxied(c)' = Proxied(c)
                       \/ /\ Proxied(c)' = Proxied(c) + 1
                          /\ a = ProxyAt(c, Proxied(c) + 1)
        BY <1>b, <1>i, AddCounts DEF ChainOK, Proxied, ProxyAt, NewProxy
    <2>2. ASSUME NEW c \in Contracts, NEW n \in 1..(Proxied(c)')
          PROVE  ProxyAt(c, n) \in DOMAIN chain'
        <3>1. CASE n \in 1..Proxied(c)
            <4>1. ProxyAt(c, n) \in DOMAIN chain  BY <1>i, <3>1 DEF ChainOK
            <4>. QED  BY <2>1, <4>1
        <3>2. CASE n \notin 1..Proxied(c)
            <4>1. n = Proxied(c) + 1 /\ a = ProxyAt(c, Proxied(c) + 1)  BY <2>1, <3>2
            <4>. QED  BY <2>1, <4>1
        <3>. QED  BY <3>1, <3>2
    <2>3. Grows  BY <2>1
    <2>4. \A c, n : ProxyAt(c, n)' = ProxyAt(c, n)  BY DEF ProxyAt, Address
    <2>. QED  BY <2>1, <2>2, <2>3, <2>4 DEF ChainOK
<1>. HIDE DEF Goal
<1>1. ASSUME DeployStep PROVE Goal
    <2>1. todo[1].op = "deploy" /\ StepOf(Name, todo[1]) /\ Head(todo) = todo[1]
        BY <1>1, <1>i, TakenStep DEF DeployStep, DoDeploy
    <2>2. todo[1].at.proxy = FALSE  BY <2>1 DEF StepOf, New, Address
    <2>. QED  BY <1>b, <1>1, <2>1, <2>2 DEF DeployStep, DoDeploy
<1>2. ASSUME ProxyStep PROVE Goal
    <2>1. todo[1].op = "proxy" /\ StepOf(Name, todo[1]) /\ Head(todo) = todo[1]
        BY <1>2, <1>i, TakenStep DEF ProxyStep, DoProxy
    <2>. QED  BY <1>b, <1>2, <2>1 DEF ProxyStep, DoProxy, StepOf
<1>3. ASSUME DeployByHand PROVE Goal
    <2>1. New("GenericVaultPriceOracle").proxy = FALSE  BY DEF New, Address
    <2>. QED  BY <1>b, <1>3, <2>1 DEF DeployByHand
<1>4. ASSUME TransferStep \/ AcceptGovernance PROVE Goal
    <2>1. DOMAIN chain' = DOMAIN chain
        BY <1>4 DEF TransferStep, DoTransfer, AcceptGovernance
    <2>. QED  BY <1>a, <2>1
<1>5. ASSUME UNCHANGED chain PROVE Goal  BY <1>a, <1>5
<1>6. ASSUME NEW c \in DOMAIN Adoption, Adopt(c) PROVE Goal
    BY <1>5, <1>6 DEF Adopt
<1>7. ASSUME NEW batch \in printed, GovernanceExecutes(batch) PROVE Goal
    BY <1>5, <1>7 DEF GovernanceExecutes
<1>8. ASSUME OverwriteStep \/ SetKeyStep \/ CallStep \/ AssetStep \/ PrintStep PROVE Goal
    BY <1>5, <1>8 DEF OverwriteStep, SetKeyStep, CallStep, AssetStep, PrintStep, DoOverwrite,
                      DoSetKey, DoCall, DoAssetCall, DoPrint, deployment
<1>9. ASSUME StartScript \/ SkipScript \/ Finish \/ Revert \/ GoOn \/ Cut \/ ChangeGovernor
      PROVE  Goal
    BY <1>5, <1>9 DEF StartScript, SkipScript, Finish, Revert, GoOn, Cut, ChangeGovernor,
                      deployment
<1>10. Goal
    BY <1>1, <1>2, <1>3, <1>4, <1>6, <1>7, <1>8, <1>9 DEF DeployNext, Progress, StepOfScript
<1>. QED  BY <1>10 DEF Goal

LEMMA Appended ==
    ASSUME NEW s, IsSequence(s), NEW x
    PROVE  /\ IsSequence(Append(s, x)) /\ Append(s, x) # <<>>
           /\ \A i \in DOMAIN Append(s, x) :
                  Append(s, x)[i] = x \/ \E j \in DOMAIN s : Append(s, x)[i] = s[j]
<1>. DEFINE A == {s[i] : i \in DOMAIN s} \union {x}
            t == Append(s, x)
<1>1. s \in Seq(A)
    <2>1. s \in Seq({s[i] : i \in DOMAIN s})  BY DEF IsSequence
    <2>. QED  BY <2>1, SeqMonotonic
<1>2. x \in A  OBVIOUS
<1>. HIDE DEF A
<1>3. t \in Seq(A) /\ Len(t) = Len(s) + 1 /\ Len(s) \in Nat
    BY <1>1, <1>2, AppendProperties
<1>. HIDE DEF t
<1>4. t # <<>>  BY <1>3
<1>5. IsSequence(t) /\ \A i \in DOMAIN t : t[i] \in A  BY <1>3, SequenceOfAny
<1>. QED  BY <1>4, <1>5 DEF A, t

LEMMA ContractsAre ==
    /\ DOMAIN Makers \subseteq Contracts /\ DOMAIN Adoption \subseteq Contracts
    /\ \A r \in Relies : r[2] \in Contracts
    /\ {"GenericVault", "BalancerPoolVault", "GyroConfig", "GenericVaultPriceOracle"}
           \subseteq Contracts
    /\ {"GenericVault", "BalancerPoolVault"} \cap DOMAIN Makers = {}
<1>1. "GenericVaultPriceOracle" \in {VaultOracles[i] : i \in DOMAIN VaultOracles}
      /\ "BalancerCPMMPriceOracle" \in {VaultOracles[i] : i \in DOMAIN VaultOracles}
    <2>1. /\ VaultOracles[1] = "GenericVaultPriceOracle" /\ 1 \in DOMAIN VaultOracles
          /\ VaultOracles[2] = "BalancerCPMMPriceOracle" /\ 2 \in DOMAIN VaultOracles
        BY DEF VaultOracles
    <2>. QED  BY <2>1
<1>2. DOMAIN Adoption \subseteq Contracts  BY DEF Adoption, Contracts
<1>3. DOMAIN Makers \subseteq Contracts  BY <1>1 DEF Makers, Contracts
<1>4. \A r \in Relies : r[2] \in Contracts  BY <1>2 DEF Relies, Contracts
<1>5. {"GenericVault", "BalancerPoolVault", "GyroConfig", "GenericVaultPriceOracle"}
           \subseteq Contracts
    BY <1>1 DEF Contracts
<1>6. {"GenericVault", "BalancerPoolVault"} \cap DOMAIN Makers = {}  BY DEF Makers
<1>. QED  BY <1>2, <1>3, <1>4, <1>5, <1>6

\* A container is never emptied, and filled by the deployment of its contract only.
Fills(c) ==
    \/ containers[c] # <<>>
    \/ running /\ Makers[c] = Name
    \/ c = "GenericVaultPriceOracle" /\ Makers[c] \in Passed

LEMMA ContainerSteps ==
    ASSUME DeployInv, DeployNext
    PROVE  /\ ContainersOK'
           /\ \A c \in Contracts : containers[c] # <<>> => containers'[c] # <<>>
           /\ \A c \in DOMAIN Makers : containers'[c] # <<>> => Fills(c)
<1>. DEFINE Goal == /\ ContainersOK'
                    /\ \A c \in Contracts : containers[c] # <<>> => containers'[c] # <<>>
                    /\ \A c \in DOMAIN Makers : containers'[c] # <<>> => Fills(c)
<1>i. ContainersOK /\ TodoOK /\ ChainOK /\ AdoptionOK /\ NothingLeftOut  BY DEF DeployInv
<1>g. DOMAIN chain \subseteq DOMAIN chain' /\ \A c : Proxied(c) \in Nat  BY ChainSteps
<1>a. ASSUME NEW c \in Contracts, NEW s, containers' = [containers EXCEPT ![c] = s],
             IsSequence(s), s # <<>>,
             \A i \in DOMAIN s : s[i] \in DOMAIN chain' /\ s[i].contract = c,
             c \in DOMAIN Makers => Fills(c)
      PROVE  Goal
    <2>1. DOMAIN containers' = Contracts /\ containers'[c] = s
          /\ \A d \in Contracts : d # c => containers'[d] = containers[d]
        BY <1>a, <1>i DEF ContainersOK
    <2>2. ContainersOK'
        <3>1. ASSUME NEW d \in Contracts
              PROVE  /\ IsSequence(containers'[d])
                     /\ \A i \in DOMAIN containers'[d] : /\ containers'[d][i] \in DOMAIN chain'
                                                         /\ containers'[d][i].contract = d
            BY <1>a, <1>g, <1>i, <2>1 DEF ContainersOK
        <3>. QED  BY <2>1, <3>1 DEF ContainersOK, IsSequence
    <2>3. ASSUME NEW d \in DOMAIN Makers, containers'[d] # <<>> PROVE Fills(d)
        <3>1. d \in Contracts  BY ContractsAre
        <3>. QED  BY <1>a, <2>1, <2>3, <3>1 DEF Fills
    <2>. QED  BY <1>a, <2>1, <2>2, <2>3
<1>b. ASSUME UNCHANGED containers PROVE Goal
    <2>1. ContainersOK'  BY <1>b, <1>g, <1>i DEF ContainersOK, IsSequence
    <2>2. \A c \in DOMAIN Makers : containers'[c] # <<>> => Fills(c)  BY <1>b DEF Fills
    <2>. QED  BY <1>b, <2>1, <2>2
<1>. HIDE DEF Goal
<1>1. ASSUME DeployStep PROVE Goal
    <2>. DEFINE a == todo[1].at
                c == a.contract
    <2>1. /\ Head(todo) = todo[1] /\ StepOf(Name, todo[1]) /\ running
          /\ todo[1].op = "deploy"
          /\ Add(a, todo[1].governor, KeptBy(todo[1]), "")
          /\ containers' = [containers EXCEPT ![c] = Append(@, a)]
        BY <1>1, <1>i, TakenStep DEF DeployStep, DoDeploy
    <2>2. a \in DOMAIN chain' /\ (c \in DOMAIN Makers => Makers[c] = Name)
        BY <2>1 DEF Add, Put, StepOf
    <2>. HIDE DEF a
    <2>3. CASE c \in Contracts
        <3>. DEFINE s == Append(containers[c], a)
        <3>1. IsSequence(containers[c]) /\ \A i \in DOMAIN containers[c] :
                  containers[c][i] \in DOMAIN chain' /\ containers[c][i].contract = c
            BY <1>g, <1>i, <2>3 DEF ContainersOK
        <3>2. IsSequence(s) /\ s # <<>> /\ \A i \in DOMAIN s :
                  s[i] \in DOMAIN chain' /\ s[i].contract = c
            BY <2>2, <3>1, Appended
        <3>3. containers' = [containers EXCEPT ![c] = s]  BY <2>1
        <3>4. c \in DOMAIN Makers => Fills(c)  BY <2>1, <2>2 DEF Fills
        <3>. HIDE DEF s, c
        <3>. QED  BY <1>a, <2>3, <3>2, <3>3, <3>4
    <2>4. CASE c \notin Contracts
        <3>1. DOMAIN containers' = Contracts
              /\ \A d \in Contracts : containers'[d] = containers[d]
            BY <1>i, <2>1, <2>4 DEF ContainersOK
        <3>2. ContainersOK'  BY <1>g, <1>i, <3>1 DEF ContainersOK, IsSequence
        <3>3. \A d \in DOMAIN Makers : containers'[d] # <<>> => Fills(d)
            BY <3>1, ContractsAre DEF Fills
        <3>. QED  BY <3>1, <3>2, <3>3 DEF Goal
    <2>. QED  BY <2>3, <2>4
<1>2. ASSUME OverwriteStep PROVE Goal
    <2>. DEFINE c == todo[1].implementation.contract
                new == todo[1].proxy
                t == RemoveFirst(containers[c], todo[1].implementation)
                s == Append(t, new)
    <2>1. /\ Head(todo) = todo[1] /\ StepOf(Name, todo[1]) /\ 1 \in DOMAIN todo /\ running
          /\ todo[1].op = "overwrite" /\ containers' = [containers EXCEPT ![c] = s]
        BY <1>2, <1>i, TakenStep DEF OverwriteStep, DoOverwrite
    <2>2. c \in {"GenericVault", "BalancerPoolVault"} /\ new.contract = c
        BY <2>1 DEF StepOf
    <2>3. new \in DOMAIN chain'
        <3>1. new \in DOMAIN chain  BY <1>i, <2>1 DEF TodoOK
        <3>. QED  BY <1>g, <3>1
    <2>4. c \in Contracts /\ c \notin DOMAIN Makers  BY <2>2, ContractsAre
    <2>. HIDE DEF c, new
    <2>5. /\ IsSequence(containers[c])
          /\ \A i \in DOMAIN containers[c] :
                containers[c][i] \in DOMAIN chain' /\ containers[c][i].contract = c
        BY <1>g, <1>i, <2>4 DEF ContainersOK
    <2>6. IsSequence(t) /\ \A i \in DOMAIN t : \E j \in DOMAIN containers[c] :
                               t[i] = containers[c][j]
        BY <2>5, FirstRemoved
    <2>. HIDE DEF t
    <2>7. IsSequence(s) /\ s # <<>> /\ \A i \in DOMAIN s :
              s[i] = new \/ \E j \in DOMAIN t : s[i] = t[j]
        BY <2>6, Appended
    <2>. HIDE DEF s
    <2>8. \A i \in DOMAIN s : s[i] \in DOMAIN chain' /\ s[i].contract = c
        BY <2>2, <2>3, <2>5, <2>6, <2>7
    <2>. QED  BY <1>a, <2>1, <2>4, <2>7, <2>8
<1>3. ASSUME DeployByHand PROVE Goal
    <2>. DEFINE c == "GenericVaultPriceOracle"
                a == New(c)
    <2>1. containers' = [containers EXCEPT ![c] = <<a>>] /\ a \in DOMAIN chain'
        BY <1>3 DEF DeployByHand, Add, Put
    <2>2. a.contract = c  BY DEF New, Address
    <2>3. Fills(c)  BY <1>3 DEF DeployByHand, Fills, Makers
    <2>4. c \in Contracts  BY ContractsAre
    <2>. HIDE DEF a, c
    <2>5. IsSequence(<<a>>) /\ <<a>> # <<>>  BY Singles
    <2>6. \A i \in DOMAIN <<a>> : <<a>>[i] \in DOMAIN chain' /\ <<a>>[i].contract = c
        BY <2>1, <2>2
    <2>. QED  BY <1>a, <2>1, <2>3, <2>4, <2>5, <2>6
<1>4. ASSUME NEW c \in DOMAIN Adoption, Adopt(c) PROVE Goal
    <2>. DEFINE a == ProxyAt(c, Proxied(c))
    <2>1. containers[c] # <<>> /\ Proxied(c) > 0
        BY <1>4, <1>i DEF Adopt, ToAdopt, AdoptionOK, NothingLeftOut, Proxied
    <2>2. c \in Contracts  BY ContractsAre
    <2>3. a \in DOMAIN chain'  BY <1>g, <1>i, <2>1, <2>2 DEF ChainOK
    <2>4. containers' = [containers EXCEPT ![c] = <<a>>]
        BY <1>4 DEF Adopt, Proxied, ProxyAt
    <2>5. a.contract = c  BY DEF ProxyAt, Address
    <2>. HIDE DEF a
    <2>6. IsSequence(<<a>>) /\ <<a>> # <<>>  BY Singles
    <2>7. \A i \in DOMAIN <<a>> : <<a>>[i] \in DOMAIN chain' /\ <<a>>[i].contract = c
        BY <2>3, <2>5
    <2>8. Fills(c)  BY <2>1 DEF Fills
    <2>. QED  BY <1>a, <2>2, <2>4, <2>6, <2>7, <2>8
<1>5. ASSUME ProxyStep \/ SetKeyStep \/ CallStep \/ AssetStep \/ TransferStep \/ PrintStep
      PROVE  Goal
    BY <1>5, <1>b DEF ProxyStep, SetKeyStep, CallStep, AssetStep, TransferStep, PrintStep,
                      DoProxy, DoSetKey, DoCall, DoAssetCall, DoTransfer, DoPrint, deployment
<1>6. ASSUME StartScript \/ SkipScript \/ Finish \/ Revert \/ GoOn \/ Cut \/ ChangeGovernor
             \/ AcceptGovernance
      PROVE  Goal
    BY <1>6, <1>b DEF StartScript, SkipScript, Finish, Revert, GoOn, Cut, ChangeGovernor,
                      AcceptGovernance, deployment
<1>7. ASSUME NEW batch \in printed, GovernanceExecutes(batch) PROVE Goal
    BY <1>7, <1>b DEF GovernanceExecutes
<1>8. Goal
    BY <1>1, <1>2, <1>3, <1>4, <1>5, <1>6, <1>7 DEF DeployNext, Progress, StepOfScript
<1>. QED  BY <1>8 DEF Goal

\* A key that is written keeps or gets its type.
LEMMA KeyWritten ==
    ASSUME ConfigOK, NEW key, NEW type, NEW word, KeyTyped(key, type),
           config' = Set(config, key, type, word)
    PROVE  ConfigOK'
<1>1. /\ DOMAIN config' = DOMAIN config \union {key}
      /\ \A k \in DOMAIN config' : config'[k] =
            IF k = key THEN [type |-> type, value |-> word, frozen |-> FALSE] ELSE config[k]
    BY DEF Set, Put
<1>2. IsFiniteSet(DOMAIN config')  BY <1>1, FS_AddElement DEF ConfigOK
<1>3. ASSUME NEW k \in DOMAIN config'
      PROVE  /\ KeyTyped(k, config'[k].type)
             /\ config'[k] = [type |-> config'[k].type, value |-> config'[k].value,
                              frozen |-> config'[k].frozen]
             /\ config'[k].frozen \in BOOLEAN
    <2>1. CASE k = key
        <3>. DEFINE entry == [type |-> type, value |-> word, frozen |-> FALSE]
        <3>1. /\ entry.type = type /\ entry.frozen \in BOOLEAN
              /\ entry = [type |-> entry.type, value |-> entry.value, frozen |-> entry.frozen]
            OBVIOUS
        <3>2. config'[k] = entry  BY <1>1, <2>1
        <3>. HIDE DEF entry
        <3>. QED  BY <2>1, <3>1, <3>2
    <2>2. CASE k # key  BY <1>1, <2>2 DEF ConfigOK
    <2>. QED  BY <2>1, <2>2
<1>. QED  BY <1>2, <1>3 DEF ConfigOK, KeyTyped

LEMMA ConfigSteps ==
    ASSUME DeployInv, DeployNext
    PROVE  ConfigOK' /\ (config' # config => running \/ printed # {})
<1>i. ConfigOK /\ TodoOK  BY DEF DeployInv
<1>a. ASSUME UNCHANGED config PROVE ConfigOK'  BY <1>a, <1>i DEF ConfigOK, KeyTyped
<1>1. ASSUME SetKeyStep PROVE ConfigOK' /\ running
    <2>1. /\ StepOf(Name, todo[1]) /\ todo[1].op = "setKey" /\ running
          /\ config' = Set(config, todo[1].key, todo[1].type, todo[1].word)
        BY <1>1, <1>i, TakenStep DEF SetKeyStep, DoSetKey
    <2>2. KeyTyped(todo[1].key, todo[1].type)  BY <2>1 DEF StepOf
    <2>. QED  BY <1>i, <2>1, <2>2, KeyWritten
<1>2. ASSUME NEW batch \in printed, GovernanceExecutes(batch) PROVE ConfigOK'
    <2>1. PICK word : \/ config' = config
                      \/ config' = Set(config, "ROOT_PRICE_ORACLE", "address", word)
        BY <1>2 DEF GovernanceExecutes
    <2>2. KeyTyped("ROOT_PRICE_ORACLE", "address")  BY DEF KeyTyped, AddressKeys
    <2>. QED  BY <1>a, <1>i, <2>1, <2>2, KeyWritten
<1>3. ASSUME NEW c \in DOMAIN Adoption, Adopt(c) PROVE UNCHANGED config
    BY <1>3 DEF Adopt
<1>4. ASSUME DeployByHand \/ AcceptGovernance PROVE UNCHANGED config
    BY <1>4 DEF DeployByHand, AcceptGovernance
<1>5. ASSUME DeployStep \/ ProxyStep \/ OverwriteStep \/ CallStep \/ AssetStep
             \/ TransferStep \/ PrintStep
      PROVE  UNCHANGED config
    BY <1>5 DEF DeployStep, ProxyStep, OverwriteStep, CallStep, AssetStep, TransferStep, PrintStep,
                DoDeploy, DoProxy, DoOverwrite, DoCall, DoAssetCall, DoTransfer, DoPrint,
                deployment
<1>6. ASSUME StartScript \/ SkipScript \/ Finish \/ Revert \/ GoOn \/ Cut \/ ChangeGovernor
      PROVE  UNCHANGED config
    BY <1>6 DEF StartScript, SkipScript, Finish, Revert, GoOn, Cut, ChangeGovernor, deployment
<1>. QED  BY <1>a, <1>1, <1>2, <1>3, <1>4, <1>5, <1>6 DEF DeployNext, Progress, StepOfScript

LEMMA RegistrySteps ==
    ASSUME DeployInv, DeployNext
    PROVE  RegistriesOK'
<1>i. RegistriesOK /\ TodoOK  BY DEF DeployInv
<1>a. ASSUME UNCHANGED registries PROVE RegistriesOK'  BY <1>a, <1>i DEF RegistriesOK
<1>. DEFINE Fields == {"assets", "addresses", "stable", "ranges"}
<1>1. ASSUME AssetStep PROVE RegistriesOK'
    <2>. DEFINE t == todo[1].target
                l == todo[1].list
                n == todo[1].name
    <2>1. /\ StepOf(Name, todo[1]) /\ todo[1].op = "asset" /\ Head(todo) = todo[1]
          /\ Executable(todo[1])
        BY <1>1, <1>i, TakenStep DEF AssetStep, DoAssetCall
    <2>2. PICK new :
             /\ registries' = [registries EXCEPT ![t] = new]
             /\ new = CASE l = "assets" -> SetAssetAddress(registries[t], n, Asset(n))
                        [] l = "stable" -> AddStableAsset(registries[t], n)
                        [] l = "ranges" -> SetAssetRange(registries[t], n)
        BY <1>1, <2>1 DEF AssetStep, DoAssetCall
    <2>3. /\ l \in {"assets", "stable", "ranges"}
          /\ t \in DOMAIN registries /\ AssetCallSucceeds(registries[t], l, n)
        BY <2>1 DEF StepOf, Executable
    <2>. HIDE DEF t, l, n
    <2>. DEFINE reg == registries[t]
    <2>4. DOMAIN reg = Fields /\ reg.stable \subseteq reg.addresses /\ t.proxy
        BY <1>i, <2>3 DEF RegistriesOK
    <2>5. DOMAIN new = Fields /\ new.stable \subseteq new.addresses
        <3>. HIDE DEF reg
        <3>1. CASE l = "assets"
            <4>1. new = SetAssetAddress(reg, n, Asset(n))  BY <2>2, <3>1 DEF reg
            <4>. QED  BY <2>4, <4>1 DEF SetAssetAddress
        <3>2. CASE l = "stable"
            <4>1. new = AddStableAsset(reg, n)  BY <2>2, <3>2 DEF reg
            <4>2. n \in reg.addresses
                BY <2>3, <3>2 DEF AssetCallSucceeds, IsAssetAddressRegistered, reg
            <4>. QED  BY <2>4, <4>1, <4>2 DEF AddStableAsset
        <3>3. CASE l = "ranges"
            <4>1. new = SetAssetRange(reg, n)  BY <2>2, <3>3 DEF reg
            <4>. QED  BY <2>4, <4>1 DEF SetAssetRange
        <3>. QED  BY <2>3, <3>1, <3>2, <3>3
    <2>. QED  BY <1>i, <2>2, <2>3, <2>4, <2>5 DEF RegistriesOK
<1>2. ASSUME ProxyStep PROVE RegistriesOK'
    <2>. DEFINE a == todo[1].at
    <2>1. /\ StepOf(Name, todo[1]) /\ todo[1].op = "proxy"
          /\ registries' = registries \/ registries' = Put(registries, a, EmptyRegistry)
        BY <1>2, <1>i, TakenStep DEF ProxyStep, DoProxy
    <2>2. a.proxy  BY <2>1 DEF StepOf, NewProxy, Address
    <2>3. DOMAIN EmptyRegistry = Fields
          /\ EmptyRegistry.stable \subseteq EmptyRegistry.addresses
        BY DEF EmptyRegistry
    <2>. HIDE DEF a
    <2>4. CASE registries' = Put(registries, a, EmptyRegistry)
        BY <1>i, <2>2, <2>3, <2>4 DEF RegistriesOK, Put
    <2>. QED  BY <1>a, <2>1, <2>4
<1>3. ASSUME NEW c \in DOMAIN Adoption, Adopt(c) PROVE UNCHANGED registries
    BY <1>3 DEF Adopt
<1>4. ASSUME DeployByHand \/ AcceptGovernance PROVE UNCHANGED registries
    BY <1>4 DEF DeployByHand, AcceptGovernance
<1>5. ASSUME DeployStep \/ OverwriteStep \/ SetKeyStep \/ CallStep \/ TransferStep \/ PrintStep
      PROVE  UNCHANGED registries
    BY <1>5 DEF DeployStep, OverwriteStep, SetKeyStep, CallStep, TransferStep, PrintStep,
                DoDeploy, DoOverwrite, DoSetKey, DoCall, DoTransfer, DoPrint, deployment
<1>6. ASSUME StartScript \/ SkipScript \/ Finish \/ Revert \/ GoOn \/ Cut \/ ChangeGovernor
      PROVE  UNCHANGED registries
    BY <1>6 DEF StartScript, SkipScript, Finish, Revert, GoOn, Cut, ChangeGovernor, deployment
<1>7. ASSUME NEW batch \in printed, GovernanceExecutes(batch) PROVE UNCHANGED registries
    BY <1>7 DEF GovernanceExecutes
<1>. QED  BY <1>a, <1>1, <1>2, <1>3, <1>4, <1>5, <1>6, <1>7 DEF DeployNext, Progress, StepOfScript

LEMMA PassedGrows ==
    ASSUME DeployInv, DeployNext
    PROVE  /\ Passed \subseteq Passed'
           /\ done \subseteq done' /\ reverted \subseteq reverted' /\ torn \subseteq torn'
<1>i. next \in Nat  BY DEF DeployInv, PlanOK
<1>a. ASSUME next' = next \/ next' = next + 1 PROVE Passed \subseteq Passed'
    BY <1>a, <1>i DEF Passed
<1>1. ASSUME StepOfScript
      PROVE UNCHANGED <<next, done, reverted, torn>>
    BY <1>1 DEF StepOfScript, DeployStep, ProxyStep, OverwriteStep, SetKeyStep, CallStep,
                AssetStep, TransferStep, PrintStep, TakesStep, history
<1>2. ASSUME NEW c \in DOMAIN Adoption, Adopt(c) PROVE UNCHANGED <<next, done, reverted, torn>>
    BY <1>2 DEF Adopt, plan, history
<1>3. ASSUME NEW batch \in printed, GovernanceExecutes(batch)
      PROVE  UNCHANGED <<next, done, reverted, torn>>
    BY <1>3 DEF GovernanceExecutes, plan, history
<1>4. ASSUME StartScript \/ DeployByHand \/ ChangeGovernor \/ AcceptGovernance
      PROVE  UNCHANGED <<next, done, reverted, torn>>
    BY <1>4 DEF StartScript, DeployByHand, ChangeGovernor, AcceptGovernance, plan, history
<1>5. ASSUME SkipScript \/ Finish \/ Revert \/ GoOn \/ Cut
      PROVE  /\ next' = next \/ next' = next + 1
             /\ done \subseteq done' /\ reverted \subseteq reverted' /\ torn \subseteq torn'
    BY <1>5 DEF SkipScript, Finish, Revert, GoOn, Cut, plan, history
<1>. QED  BY <1>a, <1>1, <1>2, <1>3, <1>4, <1>5 DEF DeployNext, Progress

\* What a running script becomes.
LEMMA AfterRunning ==
    ASSUME DeployInv, DeployNext, running
    PROVE  \/ running' /\ Name' = Name
           \/ Finish /\ Name \in done'
           \/ Revert /\ Name \in reverted'
           \/ Cut /\ UNCHANGED containers
<1>i. PlanOK  BY DEF DeployInv
<1>1. ASSUME StepOfScript PROVE running' /\ Name' = Name
    BY <1>1 DEF StepOfScript, DeployStep, ProxyStep, OverwriteStep, SetKeyStep, CallStep,
                AssetStep, TransferStep, PrintStep, TakesStep, history, running, Name
<1>2. ~ \E c \in DOMAIN Adoption : Adopt(c)  BY DEF Adopt
<1>3. ~ \E batch \in printed : GovernanceExecutes(batch)
    BY <1>i, PlanLength DEF GovernanceExecutes, PlanOK, running
<1>4. ~ (StartScript \/ SkipScript \/ GoOn \/ DeployByHand \/ ChangeGovernor \/ AcceptGovernance)
    BY <1>i, PlanLength DEF StartScript, SkipScript, Idle, GoOn, DeployByHand, ChangeGovernor,
                AcceptGovernance, PlanOK, running
<1>5. Finish => Name \in done'  BY DEF Finish
<1>6. Revert => Name \in reverted'  BY DEF Revert
<1>7. Cut => UNCHANGED containers  BY DEF Cut, deployment
<1>. QED  BY <1>1, <1>2, <1>3, <1>4, <1>5, <1>6, <1>7 DEF DeployNext, Progress

\* A script that as_singleton guards is left half done for good by a cut after its
\* deployment.
LEMMA CutTears ==
    ASSUME DeployInv, Cut, NEW c \in DOMAIN Makers, Makers[c] = Name, containers[c] # <<>>
    PROVE  Name \in torn'
<1>1. running /\ TodoOK  BY DEF Cut, DeployInv
<1>2. Guarded(Current, c, <<Name, "GyroConfig">> \in Relies)
    BY MakersGuarded DEF Current
<1>3. <<Name, "GyroConfig">> \in Relies => containers["GyroConfig"] # <<>>
    BY <1>1 DEF TodoOK
<1>4. Verdict(Current.rules) = "skip"  BY <1>2, <1>3, GuardSkips
<1>. QED  BY <1>4 DEF Cut, Stuck

LEMMA MadeSteps ==
    ASSUME DeployInv, DeployNext
    PROVE  MadeOK'
<1>i. MadeOK  BY DEF DeployInv
<1>. SUFFICES ASSUME NEW c \in DOMAIN Makers, containers'[c] # <<>>
              PROVE  \/ Makers[c] \in (done \union reverted \union torn)'
                     \/ running' /\ Name' = Makers[c]
                     \/ c = "GenericVaultPriceOracle" /\ Makers[c] \in Passed'
    BY DEF MadeOK
<1>1. Fills(c)  BY ContainerSteps
<1>2. \/ Makers[c] \in done \union reverted \union torn
      \/ running /\ Name = Makers[c]
      \/ c = "GenericVaultPriceOracle" /\ Makers[c] \in Passed
    BY <1>1, <1>i DEF Fills, MadeOK
<1>3. CASE running /\ Name = Makers[c]
    <2>1. Cut /\ UNCHANGED containers => Name \in torn'
        BY <1>3, CutTears
    <2>. QED  BY <1>3, <2>1, AfterRunning
<1>. QED  BY <1>2, <1>3, PassedGrows

LEMMA SameChain ==
    ASSUME DOMAIN chain' = DOMAIN chain
    PROVE  \A c : New(c)' = New(c) /\ NewProxy(c)' = NewProxy(c)
BY DEF New, NewProxy, Count, Address

\* What the step of a script does to the addresses that are free.
LEMMA FreeAddresses ==
    ASSUME DeployInv, StepOfScript
    PROVE  /\ TakesStep
           /\ todo[1].op # "deploy" => \A c : New(c)' = New(c)
           /\ todo[1].op # "proxy" => \A c : NewProxy(c)' = NewProxy(c)
           /\ todo[1].op = "proxy" => todo[1].at \in DOMAIN chain'
<1>i. ChainOK /\ TodoOK  BY DEF DeployInv
<1>1. TakesStep  BY DEF StepOfScript, DeployStep, ProxyStep, OverwriteStep, SetKeyStep, CallStep,
                        AssetStep, TransferStep, PrintStep
<1>2. Head(todo) = todo[1] /\ StepOf(Name, todo[1])  BY <1>1, <1>i, TakenStep
<1>3. CASE DeployStep
    <2>. DEFINE a == todo[1].at
    <2>0. todo[1].op = "deploy"  BY <1>2, <1>3 DEF DeployStep, DoDeploy
    <2>1. todo[1].op = "deploy" /\ a.proxy = FALSE
        BY <1>2, <2>0 DEF StepOf, New, Address
    <2>2. PICK g, kept, l : Add(a, g, kept, l)  BY <1>2, <1>3 DEF DeployStep, DoDeploy
    <2>. HIDE DEF a
    <2>3. \A c : Proxied(c)' = Proxied(c)
        BY <1>i, <2>1, <2>2, AddCounts DEF ChainOK, Proxied
    <2>4. \A c : NewProxy(c)' = NewProxy(c)  BY <2>3 DEF NewProxy, Proxied, Address
    <2>. QED  BY <1>1, <2>1, <2>4
<1>4. CASE ProxyStep
    <2>. DEFINE a == todo[1].at
                Bare(c) == Count(c, FALSE)
    <2>0. todo[1].op = "proxy"  BY <1>2, <1>4 DEF ProxyStep, DoProxy
    <2>1. todo[1].op = "proxy" /\ a.proxy = TRUE
        BY <1>2, <2>0 DEF StepOf, NewProxy, Address
    <2>2. PICK g, kept, l : Add(a, g, kept, l)  BY <1>2, <1>4 DEF ProxyStep, DoProxy
    <2>. HIDE DEF a
    <2>3. \A c : Bare(c)' = Bare(c)
        BY <1>i, <2>1, <2>2, AddCounts DEF ChainOK
    <2>4. \A c : New(c)' = New(c)  BY <2>3 DEF New, Address
    <2>5. a \in DOMAIN chain'  BY <2>2 DEF Add, Put
    <2>. QED  BY <1>1, <2>1, <2>4, <2>5 DEF a
<1>5. CASE OverwriteStep \/ SetKeyStep \/ CallStep \/ AssetStep \/ TransferStep \/ PrintStep
    <2>1. DOMAIN chain' = DOMAIN chain
        BY <1>5 DEF OverwriteStep, SetKeyStep, CallStep, AssetStep, TransferStep, PrintStep,
                    DoOverwrite, DoSetKey, DoCall, DoAssetCall, DoTransfer, DoPrint, deployment
    <2>2. todo[1].op # "proxy"
        BY <1>2, <1>5 DEF OverwriteStep, SetKeyStep, CallStep, AssetStep, TransferStep,
                    PrintStep, DoOverwrite, DoSetKey, DoCall, DoAssetCall, DoTransfer, DoPrint
    <2>. QED  BY <1>1, <2>1, <2>2, SameChain
<1>. QED  BY <1>3, <1>4, <1>5 DEF StepOfScript

LEMMA TodoOfStep ==
    ASSUME DeployInv, StepOfScript
    PROVE  TodoOK'
<1>i. TodoOK  BY DEF DeployInv
<1>n. DeployNext  BY DEF DeployNext, Progress
<1>1. /\ TakesStep
      /\ todo[1].op # "deploy" => \A c : New(c)' = New(c)
      /\ todo[1].op # "proxy" => \A c : NewProxy(c)' = NewProxy(c)
      /\ todo[1].op = "proxy" => todo[1].at \in DOMAIN chain'
    BY FreeAddresses
<1>2. /\ 1 \in DOMAIN todo /\ running /\ running' /\ IsSequence(todo')
      /\ \A i \in DOMAIN todo' : /\ i \in Nat /\ i > 0
                                 /\ i + 1 \in DOMAIN todo /\ todo'[i] = todo[i + 1]
    BY <1>1, <1>i, TakenStep
<1>3. Name' = Name  BY <1>1 DEF TakesStep, Name
<1>4. ASSUME NEW i \in DOMAIN todo' PROVE StepOf(Name, todo[i])'
    <2>. DEFINE x == todo[i + 1]
    <2>1. /\ x.op = "deploy" => todo[1].op # "deploy"
          /\ x.op = "proxy" => todo[1].op # "proxy"
        BY <1>2, <1>i DEF TodoOK, Lonely
    <2>2. StepOf(Name, x) /\ todo'[i] = x  BY <1>2, <1>i DEF TodoOK
    <2>. HIDE DEF x
    <2>3. /\ x.op = "deploy" => New(x.at.contract) = New(todo[i].at.contract)'
          /\ x.op = "proxy" => NewProxy(x.at.contract) = NewProxy(todo[i].at.contract)'
        BY <1>1, <2>1, <2>2
    <2>. QED  BY <1>3, <2>2, <2>3 DEF StepOf, KeyTyped
<1>5. \A i, j \in DOMAIN todo' :
          Lonely(todo'[i]) /\ todo'[i].op = todo'[j].op => i = j
    <2>. SUFFICES ASSUME NEW i \in DOMAIN todo', NEW j \in DOMAIN todo',
                         Lonely(todo'[i]), todo'[i].op = todo'[j].op
                  PROVE  i = j
        OBVIOUS
    <2>1. i + 1 = j + 1  BY <1>2, <1>i DEF TodoOK
    <2>. QED  BY <1>2, <2>1
<1>6. ASSUME NEW i \in DOMAIN todo', todo'[i].op = "overwrite"
      PROVE  \/ todo'[i].proxy \in DOMAIN chain'
             \/ \E j \in 1..(i - 1) : todo'[j].op = "proxy" /\ todo'[j].at = todo'[i].proxy
    <2>1. CASE todo[i + 1].proxy \in DOMAIN chain
        BY <1>2, <1>n, <2>1, ChainSteps
    <2>2. CASE \E j \in 1..i : todo[j].op = "proxy" /\ todo[j].at = todo[i + 1].proxy
        <3>1. PICK j \in 1..i : todo[j].op = "proxy" /\ todo[j].at = todo[i + 1].proxy
            BY <2>2
        <3>2. CASE j = 1  BY <1>1, <1>2, <3>1, <3>2
        <3>3. CASE j > 1
            <4>1. j - 1 \in 1..(i - 1) /\ j - 1 \in DOMAIN todo'
                <5>1. DOMAIN todo' = 1..Len(todo') /\ Len(todo') \in Nat  BY <1>2, LengthOf
                <5>. QED  BY <1>2, <3>3, <5>1
            <4>2. todo'[j - 1] = todo[j]
                <5>1. (j - 1) + 1 = j  OBVIOUS
                <5>. QED  BY <1>2, <4>1, <5>1
            <4>. QED  BY <1>2, <3>1, <4>1, <4>2
        <3>. QED  BY <3>2, <3>3
    <2>3. i + 1 \in DOMAIN todo /\ todo[i + 1].op = "overwrite" /\ (i + 1) - 1 = i
        BY <1>2, <1>6
    <2>. QED  BY <1>2, <1>i, <2>1, <2>2, <2>3 DEF TodoOK
<1>7. ASSUME NEW r \in Relies, Name = r[1] PROVE containers'[r[2]] # <<>>
    <2>1. r[2] \in Contracts /\ containers[r[2]] # <<>>
        BY <1>2, <1>7, <1>i, ContractsAre DEF TodoOK
    <2>. HIDE DEF Contracts
    <2>. QED  BY <1>n, <2>1, ContainerSteps
<1>. QED  BY <1>2, <1>3, <1>4, <1>5, <1>6, <1>7 DEF TodoOK

LEMMA TodoOfStart ==
    ASSUME DeployInv, StartScript
    PROVE  TodoOK'
<1>1. /\ running' /\ Name' = Name /\ todo' = Current.steps /\ UNCHANGED <<chain, containers>>
      /\ Verdict(Current.rules) = "run" /\ next <= Len(Plan)
    BY DEF StartScript, running, Name, deployment, Idle
<1>2. Name \in ScriptNames
    <2>1. next \in 1..Len(Plan)  BY <1>1, PlanLength DEF DeployInv, PlanOK
    <2>. QED  BY <2>1, PlanAssumption DEF Name
<1>3. ScriptOf(Name, Current)
    BY <1>2, AllScripts, ContractsAre DEF DeployInv, ContainersOK, Current
<1>4. StepsOf(Name, todo')  BY <1>1, <1>3 DEF ScriptOf
<1>5. ASSUME NEW r \in Relies, Name = r[1] PROVE containers'[r[2]] # <<>>
    BY <1>1, <1>5, ReliesOnRule, RunsWithRule DEF Current
<1>6. \A c : New(c)' = New(c) /\ NewProxy(c)' = NewProxy(c)  BY <1>1, SameChain
<1>7. ASSUME NEW i \in DOMAIN todo' PROVE StepOf(Name, todo[i])'
    <2>. DEFINE x == todo'[i]
    <2>1. StepOf(Name, x)  BY <1>4 DEF StepsOf
    <2>. QED  BY <1>1, <1>6, <2>1 DEF StepOf, KeyTyped
<1>. QED  BY <1>1, <1>4, <1>5, <1>7 DEF TodoOK, StepsOf

\* What is neither the start of a script nor one of its steps leaves none running.
LEMMA OtherActions ==
    ASSUME DeployInv, DeployNext
    PROVE  StartScript \/ StepOfScript \/ (~running' /\ todo' = <<>>)
<1>i. TodoOK /\ PlanOK  BY DEF DeployInv
<1>1. ASSUME Finish \/ Revert \/ Cut PROVE ~running' /\ todo' = <<>>
    BY <1>1 DEF Finish, Revert, Cut, running
<1>2. ASSUME SkipScript \/ GoOn PROVE ~running' /\ todo' = <<>>
    BY <1>2, <1>i DEF SkipScript, Idle, GoOn, TodoOK, running
<1>3. ASSUME NEW c \in DOMAIN Adoption, Adopt(c) PROVE ~running' /\ todo' = <<>>
    BY <1>3, <1>i DEF Adopt, TodoOK, running, plan
<1>4. ASSUME DeployByHand \/ ChangeGovernor PROVE ~running' /\ todo' = <<>>
    BY <1>4, <1>i DEF DeployByHand, ChangeGovernor, TodoOK, running, plan
<1>5. ASSUME handover # "none", UNCHANGED plan PROVE ~running' /\ todo' = <<>>
    <2>1. ~running  BY <1>5, <1>i, PlanLength DEF PlanOK, running
    <2>. QED  BY <1>5, <1>i, <2>1 DEF TodoOK, running, plan
<1>6. ASSUME AcceptGovernance PROVE ~running' /\ todo' = <<>>
    BY <1>5, <1>6 DEF AcceptGovernance
<1>7. ASSUME NEW batch \in printed, GovernanceExecutes(batch) PROVE ~running' /\ todo' = <<>>
    BY <1>5, <1>7 DEF GovernanceExecutes
<1>. QED  BY <1>1, <1>2, <1>3, <1>4, <1>6, <1>7 DEF DeployNext, Progress

LEMMA TodoSteps ==
    ASSUME DeployInv, DeployNext
    PROVE  TodoOK'
<1>1. ASSUME ~running', todo' = <<>> PROVE TodoOK'  BY <1>1 DEF TodoOK
<1>. QED  BY <1>1, OtherActions, TodoOfStart, TodoOfStep

\* The address a script is handed is listed under its contract.
LEMMA BoundOf ==
    ASSUME ContainersOK, NEW c \in Contracts, containers[c] # <<>>
    PROVE  Bound(c).contract = c
<1>1. /\ Len(containers[c]) \in Nat /\ Len(containers[c]) > 0
      /\ DOMAIN containers[c] = 1..Len(containers[c])
    <2>1. IsSequence(containers[c])  BY DEF ContainersOK
    <2>. QED  BY <2>1, LengthOf, TailOf
<1>2. \A i \in DOMAIN containers[c] : containers[c][i].contract = c  BY DEF ContainersOK
<1>3. 1 \in DOMAIN containers[c] /\ Len(containers[c]) \in DOMAIN containers[c]  BY <1>1
<1>4. Outsider(c).contract = c  BY DEF Outsider, Address
<1>. QED  BY <1>2, <1>3, <1>4 DEF Bound

LEMMA AdoptionSteps ==
    ASSUME DeployInv, DeployNext
    PROVE  AdoptionOK'
<1>i. AdoptionOK /\ TodoOK /\ ChainOK /\ ContainersOK /\ PlanOK  BY DEF DeployInv
<1>. SUFFICES ASSUME NEW c \in DOMAIN Adoption
              PROVE  /\ Adoption[c] \in (done \union reverted \union torn)'
                            => containers'[c] # <<>>
                     /\ Adoption[c] \in done' => Proxied(c)' > 0
                     /\ running' /\ Name' = Adoption[c] =>
                           \/ Proxied(c)' > 0
                           \/ \E i \in DOMAIN todo' : /\ todo'[i].op = "proxy"
                                                      /\ todo'[i].at.contract = c
    BY DEF AdoptionOK
<1>1. c \in Contracts /\ <<Adoption[c], c>> \in Relies  BY ContractsAre DEF Relies
<1>2. /\ Proxied(c) \in Nat /\ Proxied(c)' \in Nat /\ Proxied(c)' >= Proxied(c)
      /\ containers[c] # <<>> => containers'[c] # <<>>
    <2>. HIDE DEF Contracts
    <2>. QED  BY <1>1, ChainSteps, ContainerSteps
<1>a. ASSUME running, Name = Adoption[c] PROVE containers[c] # <<>>
    BY <1>1, <1>a, <1>i DEF TodoOK
<1>b. ASSUME Adoption[c] \in (done \union reverted \union torn)' PROVE containers'[c] # <<>>
    <2>1. CASE Adoption[c] \in done \union reverted \union torn
        BY <1>2, <1>i, <2>1 DEF AdoptionOK
    <2>2. CASE Adoption[c] \notin done \union reverted \union torn
        <3>1. ASSUME NEW d \in DOMAIN Adoption, Adopt(d) PROVE UNCHANGED history
            BY <3>1 DEF Adopt
        <3>2. ASSUME NEW batch \in printed, GovernanceExecutes(batch) PROVE UNCHANGED history
            BY <3>2 DEF GovernanceExecutes
        <3>3. ASSUME DeployByHand \/ ChangeGovernor \/ AcceptGovernance \/ StartScript
                     \/ SkipScript \/ GoOn
              PROVE  UNCHANGED history
            BY <3>3 DEF DeployByHand, ChangeGovernor, AcceptGovernance, StartScript,
                        SkipScript, GoOn
        <3>4. ASSUME StepOfScript PROVE UNCHANGED history
            BY <3>4, FreeAddresses DEF TakesStep
        <3>5. ~UNCHANGED history  BY <1>b, <2>2 DEF history
        <3>6. Finish \/ Revert \/ Cut
            BY <3>1, <3>2, <3>3, <3>4, <3>5 DEF DeployNext, Progress
        <3>7. running /\ Name = Adoption[c]
            BY <1>b, <2>2, <3>6 DEF Finish, Revert, Cut
        <3>. QED  BY <1>2, <1>a, <3>7
    <2>. QED  BY <2>1, <2>2
<1>3. ASSUME Adoption[c] \in done' PROVE Proxied(c)' > 0
    <2>1. CASE Adoption[c] \in done  BY <1>2, <1>i, <2>1 DEF AdoptionOK
    <2>2. CASE Adoption[c] \notin done
        <3>1. Finish /\ Adoption[c] = Name
            <4>1. ASSUME NEW d \in DOMAIN Adoption, Adopt(d) PROVE done' = done
                BY <4>1 DEF Adopt, history
            <4>2. ASSUME NEW batch \in printed, GovernanceExecutes(batch) PROVE done' = done
                BY <4>2 DEF GovernanceExecutes, history
            <4>3. ASSUME DeployByHand \/ ChangeGovernor \/ AcceptGovernance \/ StartScript
                         \/ SkipScript \/ GoOn \/ Revert \/ Cut
                  PROVE  done' = done
                BY <4>3 DEF DeployByHand, ChangeGovernor, AcceptGovernance, StartScript,
                            SkipScript, GoOn, Revert, Cut, history
            <4>4. ASSUME StepOfScript PROVE done' = done
                BY <4>4, FreeAddresses DEF TakesStep, history
            <4>5. Finish
                BY <1>3, <2>2, <4>1, <4>2, <4>3, <4>4 DEF DeployNext, Progress
            <4>. QED  BY <1>3, <2>2, <4>5 DEF Finish
        <3>2. running /\ todo = <<>>  BY <3>1 DEF Finish
        <3>3. Proxied(c) > 0  BY <1>i, <3>1, <3>2 DEF AdoptionOK
        <3>. QED  BY <1>2, <3>3
    <2>. QED  BY <2>1, <2>2
<1>4. ASSUME running', Name' = Adoption[c]
      PROVE  \/ Proxied(c)' > 0
             \/ \E i \in DOMAIN todo' : todo'[i].op = "proxy" /\ todo'[i].at.contract = c
    <2>1. CASE StartScript
        <3>1. /\ Name = Adoption[c] /\ todo' = Current.steps /\ Verdict(Current.rules) = "run"
            BY <1>4, <2>1 DEF StartScript, Name
        <3>2. containers[c] # <<>>
            BY <1>1, <3>1, ReliesOnRule, RunsWithRule DEF Current
        <3>3. Bound(c).contract = c  BY <1>1, <1>i, <3>2, BoundOf
        <3>. QED  BY <3>1, <3>3, AdoptionProxies DEF Current
    <2>2. CASE StepOfScript
        <3>1. /\ TakesStep
              /\ todo[1].op = "proxy" => todo[1].at \in DOMAIN chain'
            BY <2>2, FreeAddresses
        <3>2. Name = Adoption[c]  BY <1>4, <3>1 DEF TakesStep, Name
        <3>3. /\ running /\ 1 \in DOMAIN todo /\ IsSequence(todo) /\ todo # <<>>
              /\ todo' = Tail(todo) /\ StepOf(Name, todo[1])
            BY <1>i, <3>1, TakenStep DEF TodoOK, TakesStep
        <3>4. CASE Proxied(c) > 0  BY <1>2, <3>4
        <3>5. ASSUME NEW i \in DOMAIN todo, todo[i].op = "proxy", todo[i].at.contract = c
              PROVE  \/ Proxied(c)' > 0
                     \/ \E j \in DOMAIN todo' : todo'[j].op = "proxy" /\ todo'[j].at.contract = c
            <4>1. CASE i = 1
                <5>. DEFINE T == {a \in DOMAIN chain' : a.contract = c /\ a.proxy = TRUE}
                <5>1. todo[1].at.proxy = TRUE /\ todo[1].at.contract = c
                    BY <3>3, <3>5, <4>1 DEF StepOf, NewProxy, Address
                <5>2. todo[1].at \in T  BY <3>1, <3>5, <4>1, <5>1
                <5>3. Proxied(c)' = Cardinality(T)  BY DEF Proxied, Count
                <5>4. IsFiniteSet(T)
                    <6>1. IsFiniteSet(DOMAIN chain')  BY ChainSteps DEF ChainOK
                    <6>. QED  BY <6>1, FS_Subset
                <5>. HIDE DEF T
                <5>5. Cardinality(T) # 0  BY <5>2, <5>4, FS_EmptySet
                <5>. QED  BY <1>2, <5>3, <5>5
            <4>2. CASE i # 1
                <5>1. DOMAIN todo = 1..Len(todo) /\ Len(todo) \in Nat  BY <3>3, LengthOf
                <5>2. DOMAIN todo' = 1..(Len(todo) - 1)  BY <3>3, TailOf, LengthOf
                <5>3. i - 1 \in DOMAIN todo' /\ (i - 1) + 1 = i  BY <4>2, <5>1, <5>2
                <5>4. todo'[i - 1] = todo[i]  BY <3>3, <5>3, TailOf
                <5>. QED  BY <3>5, <5>3, <5>4
            <4>. QED  BY <4>1, <4>2
        <3>. QED  BY <1>i, <3>2, <3>3, <3>4, <3>5 DEF AdoptionOK
    <2>. QED  BY <1>4, <2>1, <2>2, OtherActions
<1>. QED  BY <1>3, <1>4, <1>b

LEMMA LeftOutSteps ==
    ASSUME DeployInv, DeployNext
    PROVE  NothingLeftOut'
<1>i. NothingLeftOut /\ MadeOK /\ PlanOK /\ ContainersOK  BY DEF DeployInv
<1>. DEFINE All == done \union reverted \union torn
<1>1. All \subseteq All'  BY PassedGrows
<1>2. next \in Nat /\ Name = Plan[next] /\ Passed = {Plan[i] : i \in 1..(next - 1)}
    BY <1>i DEF PlanOK, Name, Passed
<1>3. ASSUME UNCHANGED next PROVE NothingLeftOut'
    BY <1>1, <1>3, <1>i DEF NothingLeftOut, Passed
<1>4. ASSUME next' = next + 1, Name \in All' PROVE NothingLeftOut'
    BY <1>1, <1>2, <1>4, <1>i DEF NothingLeftOut, Passed
<1>5. ASSUME SkipScript PROVE NothingLeftOut'
    <2>1. Idle /\ next' = next + 1 /\ Verdict(Current.rules) = "skip"  BY <1>5 DEF SkipScript
    <2>2. next \in DOMAIN Plan  BY <1>i, <2>1, PlanLength DEF Idle, PlanOK
    <2>3. Name \in ScriptNames  BY <2>2, PlanLength, PlanAssumption DEF Name
    <2>4. ScriptOf(Name, Current)
        BY <1>i, <2>3, AllScripts, ContractsAre DEF ContainersOK, Current
    <2>5. PICK c \in DOMAIN Makers : Makers[c] = Name /\ containers[c] # <<>>
        BY <2>1, <2>4, SkipsMade
    <2>6. Name \notin Passed
        <3>1. ASSUME NEW i \in 1..(next - 1), Plan[i] = Plan[next] PROVE FALSE
            <4>1. i \in DOMAIN Plan  BY <1>2, <2>2, PlanLength
            <4>2. i = next  BY <2>2, <3>1, <4>1, PlanAssumption DEF IsInjective
            <4>. QED  BY <1>2, <4>2
        <3>. QED  BY <1>2, <3>1
    <2>7. Name \in All  BY <1>i, <2>1, <2>5, <2>6 DEF MadeOK, Idle
    <2>. QED  BY <1>1, <1>4, <2>1, <2>7
<1>6. ASSUME Finish \/ GoOn PROVE NothingLeftOut'
    <2>1. next' = next + 1 /\ Name \in All'
        BY <1>6, <1>i, <1>1 DEF Finish, GoOn, PlanOK
    <2>. QED  BY <1>4, <2>1
<1>7. ASSUME NEW c \in DOMAIN Adoption, Adopt(c) PROVE UNCHANGED next
    BY <1>7 DEF Adopt, plan
<1>8. ASSUME NEW batch \in printed, GovernanceExecutes(batch) PROVE UNCHANGED next
    BY <1>8 DEF GovernanceExecutes, plan
<1>9. ASSUME DeployByHand \/ ChangeGovernor \/ AcceptGovernance \/ StartScript \/ Revert \/ Cut
      PROVE  UNCHANGED next
    BY <1>9 DEF DeployByHand, ChangeGovernor, AcceptGovernance, StartScript, Revert, Cut, plan
<1>10. ASSUME StepOfScript PROVE UNCHANGED next
    BY <1>10, FreeAddresses DEF TakesStep
<1>. QED  BY <1>3, <1>5, <1>6, <1>7, <1>8, <1>9, <1>10 DEF DeployNext, Progress

LEMMA DeployInvInit == DeployInit => DeployInv
<1>. SUFFICES ASSUME DeployInit PROVE DeployInv  OBVIOUS
<1>1. /\ DOMAIN chain = {} /\ containers = [c \in Contracts |-> <<>>] /\ DOMAIN config = {}
      /\ DOMAIN registries = {}
      /\ next = 1 /\ phase = "ready" /\ todo = <<>> /\ cuts = 0 /\ retries = 0
      /\ handover = "none" /\ done = {} /\ reverted = {} /\ torn = {}
    BY DEF DeployInit, InitDeployment, EmptyConfig
<1>2. PlanOK  BY <1>1, PlanLength, PlanAssumption DEF PlanOK
<1>3. ChainOK
    <2>1. \A c : Proxied(c) = 0
        <3>1. \A c : {a \in DOMAIN chain : a.contract = c /\ a.proxy = TRUE} = {}  BY <1>1
        <3>. QED  BY <3>1, FS_EmptySet DEF Proxied, Count
    <2>. QED  BY <1>1, <2>1, FS_EmptySet DEF ChainOK
<1>4. ContainersOK
    <2>1. IsSequence(<<>>)  BY Singles
    <2>2. DOMAIN <<>> = {}
        <3>. DEFINE s == <<>>
        <3>1. IsSequence(s) /\ Len(s) = 0  BY <2>1
        <3>. HIDE DEF s
        <3>2. DOMAIN s = {}  BY <3>1, LengthOf
        <3>. QED  BY <3>2 DEF s
    <2>. QED  BY <1>1, <2>1, <2>2 DEF ContainersOK
<1>5. ConfigOK  BY <1>1, FS_EmptySet DEF ConfigOK
<1>6. RegistriesOK  BY <1>1 DEF RegistriesOK
<1>7. TodoOK  BY <1>1 DEF TodoOK, running
<1>8. MadeOK  BY <1>1, ContractsAre DEF MadeOK
<1>9. AdoptionOK  BY <1>1 DEF AdoptionOK, running
<1>10. NothingLeftOut  BY <1>1 DEF NothingLeftOut, Passed
<1>. QED  BY <1>2, <1>3, <1>4, <1>5, <1>6, <1>7, <1>8, <1>9, <1>10 DEF DeployInv

LEMMA DeployInvStep ==
    ASSUME DeployInv, DeployNext
    PROVE  DeployInv'
BY PlanSteps, ChainSteps, ContainerSteps, ConfigSteps, RegistrySteps, TodoSteps, MadeSteps,
   AdoptionSteps, LeftOutSteps DEF DeployInv

-----------------------------------------------------------------------------
(* What governance and the readers do to what always holds.                *)

\* What of the deployment does not depend on the configuration.
LEMMA SameDeployment ==
    ASSUME DeployInv, ConfigOK',
           UNCHANGED <<chain, containers, registries, plan, limits, handover, history>>
    PROVE  DeployInv'
<1>u. UNCHANGED <<chain, containers, registries, next, phase, todo, cuts, retries, handover,
                  done, reverted, torn>>
    BY DEF plan, limits, history
<1>i. /\ PlanOK /\ ChainOK /\ ContainersOK /\ RegistriesOK /\ TodoOK
      /\ MadeOK /\ AdoptionOK /\ NothingLeftOut
    BY DEF DeployInv
<1>c. \A c : Proxied(c)' = Proxied(c)  BY <1>u DEF Proxied, Count
<1>1. PlanOK'  BY <1>i, <1>u DEF PlanOK, Name
<1>2. ChainOK'
    <2>1. \A c, n : ProxyAt(c, n)' = ProxyAt(c, n)  BY DEF ProxyAt, Address
    <2>2. IsFiniteSet(DOMAIN chain')  BY <1>i, <1>u DEF ChainOK
    <2>3. ASSUME NEW c \in Contracts, NEW n \in 1..(Proxied(c)')
          PROVE  ProxyAt(c, n)' \in DOMAIN chain'
        BY <1>c, <1>i, <1>u, <2>1 DEF ChainOK
    <2>. QED  BY <2>2, <2>3 DEF ChainOK
<1>3. ContainersOK'
    <2>1. chain' = chain /\ containers' = containers  BY <1>u
    <2>2. ASSUME NEW c \in Contracts PROVE IsSequence(containers'[c])
        BY <1>i, <2>1 DEF ContainersOK
    <2>. QED  BY <1>i, <2>1, <2>2 DEF ContainersOK
<1>4. RegistriesOK'  BY <1>i, <1>u DEF RegistriesOK
<1>5. TodoOK'
    <2>1. \A c : New(c)' = New(c) /\ NewProxy(c)' = NewProxy(c)  BY <1>u, SameChain
    <2>2. Name' = Name /\ (running' <=> running)  BY <1>u DEF Name, running
    <2>3. ASSUME running, NEW i \in DOMAIN todo' PROVE StepOf(Name, todo[i])'
        <3>1. StepOf(Name, todo[i])  BY <1>i, <1>u, <2>3 DEF TodoOK
        <3>. QED  BY <1>u, <2>1, <2>2, <3>1 DEF StepOf, KeyTyped
    <2>. QED  BY <1>i, <1>u, <2>2, <2>3 DEF TodoOK, IsSequence
<1>6. MadeOK'  BY <1>i, <1>u DEF MadeOK, Name, running, Passed
<1>7. AdoptionOK'  BY <1>c, <1>i, <1>u DEF AdoptionOK, Name, running
<1>8. NothingLeftOut'  BY <1>i, <1>u DEF NothingLeftOut, Passed
<1>. QED  BY <1>1, <1>2, <1>3, <1>4, <1>5, <1>6, <1>7, <1>8 DEF DeployInv

\* A change of governance alters one key, which was not frozen.
Alters(key) ==
    /\ \A k : k # key => /\ HasKey(config, k)' <=> HasKey(config, k)
                         /\ HasKey(config, k) => config'[k] = config[k]
    /\ HasKey(config, key) => ~config[key].frozen

GovernanceChanges ==
    \/ \E k \in GovernedKeys, w \in Fees : SetSetting(k[1], k[2], w)
    \/ \E k \in GovernedKeys : UnsetSetting(k[1]) \/ FreezeSetting(k[1])

LEMMA GovernedKeysTyped == \A k \in GovernedKeys : KeyTyped(k[1], k[2])
<1>1. /\ KeyTyped("BAL_TREASURY", "address")
      /\ \A s \in {"global", "type", "pool"} :
             KeyTyped(mk_pool_setting("PROTOCOL_SWAP_FEE_PERC", s), "uint")
    BY DEF KeyTyped, AddressKeys, NumberKeys, Treasuries, Settings, mk_pool_setting, PoolKey,
           TypeKey, Roles
<1>. HIDE DEF KeyTyped
<1>. QED  BY <1>1 DEF GovernedKeys, mk_set_vals

LEMMA ChangeIs ==
    ASSUME DeployInv, GovernanceChanges
    PROVE  \E conf, key : Changes(conf, key) /\ Alters(key) /\ ConfigOK'
<1>i. ConfigOK  BY DEF DeployInv
<1>1. ASSUME NEW k \in GovernedKeys, NEW w \in Fees, SetSetting(k[1], k[2], w)
      PROVE  \E conf, key : Changes(conf, key) /\ Alters(key) /\ ConfigOK'
    <2>. DEFINE key == k[1]
                conf == Set(config, key, k[2], w)
    <2>1. /\ Settable(config, key, k[2]) /\ Changes(conf, key) /\ config' = conf
        BY <1>1 DEF SetSetting, Changes
    <2>2. ConfigOK'
        <3>. DEFINE type == k[2]
        <3>1. KeyTyped(key, type) /\ config' = Set(config, key, type, w)
            BY <2>1, GovernedKeysTyped
        <3>. HIDE DEF key, type, conf
        <3>. QED  BY <1>i, <3>1, KeyWritten
    <2>3. Alters(key)  BY <2>1 DEF Alters, Set, Put, HasKey, Settable
    <2>. HIDE DEF conf, key
    <2>. QED  BY <2>1, <2>2, <2>3
<1>2. ASSUME NEW key, UnsetSetting(key)
      PROVE  \E conf : Changes(conf, key) /\ Alters(key) /\ ConfigOK'
    <2>. DEFINE conf == Unset(config, key)
    <2>1. Removable(config, key) /\ Changes(conf, key) /\ config' = conf
        BY <1>2 DEF UnsetSetting, Changes
    <2>2. /\ DOMAIN config' = DOMAIN config \ {key}
          /\ \A k \in DOMAIN config' : config'[k] = config[k]
        BY <2>1 DEF Unset
    <2>3. ConfigOK'
        <3>1. IsFiniteSet(DOMAIN config) /\ DOMAIN config' \in SUBSET DOMAIN config
            BY <1>i, <2>2 DEF ConfigOK
        <3>2. IsFiniteSet(DOMAIN config')  BY <3>1, FS_Subset
        <3>3. ASSUME NEW k \in DOMAIN config'
              PROVE  config'[k] = config[k] /\ k \in DOMAIN config
            BY <2>2
        <3>. QED  BY <1>i, <3>2, <3>3 DEF ConfigOK, KeyTyped
    <2>4. Alters(key)  BY <2>1, <2>2 DEF Alters, HasKey, Removable
    <2>. HIDE DEF conf
    <2>. QED  BY <2>1, <2>3, <2>4
<1>3. ASSUME NEW key, FreezeSetting(key)
      PROVE  \E conf : Changes(conf, key) /\ Alters(key) /\ ConfigOK'
    <2>. DEFINE conf == Freeze(config, key)
    <2>1. Removable(config, key) /\ Changes(conf, key) /\ config' = conf
        BY <1>3 DEF FreezeSetting, Changes
    <2>2. /\ DOMAIN config' = DOMAIN config /\ key \in DOMAIN config
          /\ \A k \in DOMAIN config : k # key => config'[k] = config[k]
          /\ config'[key] = [config[key] EXCEPT !.frozen = TRUE]
        BY <2>1 DEF Freeze, Removable, HasKey
    <2>3. ConfigOK'
        <3>1. ASSUME NEW k \in DOMAIN config'
              PROVE  /\ KeyTyped(k, config'[k].type)
                     /\ config'[k] = [type |-> config'[k].type, value |-> config'[k].value,
                                      frozen |-> config'[k].frozen]
                     /\ config'[k].frozen \in BOOLEAN
            <4>1. CASE k = key
                <5>. DEFINE old == config[key]
                <5>1. old = [type |-> old.type, value |-> old.value, frozen |-> old.frozen]
                      /\ KeyTyped(key, old.type)
                    BY <1>i, <2>2 DEF ConfigOK
                <5>2. config'[key] = [old EXCEPT !.frozen = TRUE]  BY <2>2
                <5>. HIDE DEF old
                <5>. DEFINE new == [type |-> old.type, value |-> old.value, frozen |-> TRUE]
                <5>3. config'[key] = new  BY <5>1, <5>2
                <5>4. /\ new = [type |-> new.type, value |-> new.value, frozen |-> new.frozen]
                      /\ new.frozen \in BOOLEAN /\ new.type = old.type
                    OBVIOUS
                <5>. HIDE DEF new
                <5>. QED  BY <4>1, <5>1, <5>3, <5>4
            <4>2. CASE k # key  BY <1>i, <2>2, <4>2 DEF ConfigOK
            <4>. QED  BY <4>1, <4>2
        <3>. QED  BY <1>i, <2>2, <3>1 DEF ConfigOK, KeyTyped
    <2>4. Alters(key)
        <3>1. ~config[key].frozen  BY <2>1 DEF Removable
        <3>. QED  BY <2>2, <3>1 DEF Alters, HasKey
    <2>. HIDE DEF conf
    <2>. QED  BY <2>1, <2>3, <2>4
<1>. QED  BY <1>1, <1>2, <1>3 DEF GovernanceChanges

LEMMA GovernedDeployment ==
    ASSUME DeployInv, GovernanceChanges
    PROVE  DeployInv'
<1>1. PICK conf, key : Changes(conf, key) /\ Alters(key) /\ ConfigOK'  BY ChangeIs
<1>. QED  BY <1>1, SameDeployment DEF Changes

\* Once governance has executed what the scripts printed, the operator has nothing
\* left to do that could change the configuration.
LEMMA AfterPlan ==
    ASSUME DeployInv, DeployNext, Settled, next > Len(Plan)
    PROVE  Settled' /\ next' > Len(Plan) /\ config' = config
<1>i. PlanOK  BY DEF DeployInv
<1>1. phase = "ready" /\ ~running /\ printed = {} /\ handover = "accepted"
    BY <1>i, PlanLength DEF PlanOK, running, Settled
<1>2. ~ (StartScript \/ SkipScript \/ Finish \/ Revert \/ GoOn \/ Cut)
    BY <1>i, <1>1, PlanLength DEF StartScript, SkipScript, Idle, Finish, Revert, GoOn, Cut, PlanOK
<1>3. ~ StepOfScript  BY <1>1, FreeAddresses DEF TakesStep
<1>4. ~ (ChangeGovernor \/ AcceptGovernance)  BY <1>1 DEF ChangeGovernor, AcceptGovernance
<1>5. \/ DeployByHand
      \/ \E c \in DOMAIN Adoption : Adopt(c)
    BY <1>1, <1>2, <1>3, <1>4 DEF DeployNext, Progress
<1>6. UNCHANGED <<next, printed, cuts, retries, handover>>
    BY <1>5 DEF DeployByHand, Adopt, plan, limits
<1>7. config' = config  BY <1>1, ConfigSteps
<1>. QED  BY <1>6, <1>7 DEF Settled

-----------------------------------------------------------------------------
(* What the readers ask.                                                   *)

LEMMA KeyOnce ==
    \A key, t, u : KeyTyped(key, t) /\ KeyTyped(key, u) => t = u
BY DEF KeyTyped

\* A sequence of getters that catch a key that is not set, each for a key of its own.
Gets(s, keys) ==
    /\ IsSequence(s)
    /\ \A i \in DOMAIN s : /\ s[i].call = "get" /\ s[i].caught = TRUE
                           /\ KeyTyped(s[i].key, s[i].type) /\ s[i].key \in keys
    /\ \A key \in keys : \E i \in DOMAIN s : s[i].key = key
    /\ \A i, j \in DOMAIN s : s[i].key = s[j].key => i = j

LEMMA GetsJoined ==
    ASSUME NEW s, NEW t, NEW A, NEW B, Gets(s, A), Gets(t, B), A \cap B = {}
    PROVE  Gets(s \o t, A \union B)
<1>. DEFINE u == s \o t
<1>1. IsSequence(s) /\ IsSequence(t)  BY DEF Gets
<1>2. /\ Len(s) \in Nat /\ DOMAIN s = 1..Len(s) /\ Len(t) \in Nat /\ DOMAIN t = 1..Len(t)
    BY <1>1, LengthOf
<1>3. /\ IsSequence(u) /\ DOMAIN u = 1..(Len(s) + Len(t))
      /\ \A i \in 1..(Len(s) + Len(t)) : u[i] = IF i <= Len(s) THEN s[i] ELSE t[i - Len(s)]
    BY <1>1, <1>2, JoinedAt
<1>. HIDE DEF u
<1>4. \A i \in DOMAIN u : \/ i \in DOMAIN s /\ u[i] = s[i] /\ u[i].key \in A
                          \/ i - Len(s) \in DOMAIN t /\ u[i] = t[i - Len(s)] /\ u[i].key \in B
    <2>. SUFFICES ASSUME NEW i \in DOMAIN u
                  PROVE  \/ i \in DOMAIN s /\ u[i] = s[i] /\ u[i].key \in A
                         \/ i - Len(s) \in DOMAIN t /\ u[i] = t[i - Len(s)] /\ u[i].key \in B
        OBVIOUS
    <2>1. CASE i <= Len(s)  BY <1>2, <1>3, <2>1 DEF Gets
    <2>2. CASE i > Len(s)
        <3>1. i - Len(s) \in DOMAIN t /\ u[i] = t[i - Len(s)]  BY <1>2, <1>3, <2>2
        <3>. QED  BY <3>1 DEF Gets
    <2>. QED  BY <1>2, <1>3, <2>1, <2>2
<1>5. \A i \in DOMAIN u : /\ u[i].call = "get" /\ u[i].caught = TRUE
                          /\ KeyTyped(u[i].key, u[i].type) /\ u[i].key \in A \union B
    BY <1>4 DEF Gets
<1>6. ASSUME NEW key \in A \union B PROVE \E i \in DOMAIN u : u[i].key = key
    <2>1. CASE key \in A
        <3>1. PICK i \in DOMAIN s : s[i].key = key  BY <2>1 DEF Gets
        <3>2. i \in DOMAIN u /\ u[i] = s[i]  BY <1>2, <1>3
        <3>. QED  BY <3>1, <3>2
    <2>2. CASE key \in B
        <3>1. PICK i \in DOMAIN t : t[i].key = key  BY <2>2 DEF Gets
        <3>2. Len(s) + i \in DOMAIN u /\ u[Len(s) + i] = t[i]  BY <1>2, <1>3
        <3>. QED  BY <3>1, <3>2
    <2>. QED  BY <2>1, <2>2
<1>7. ASSUME NEW i \in DOMAIN u, NEW j \in DOMAIN u, u[i].key = u[j].key PROVE i = j
    <2>1. CASE i \in DOMAIN s /\ u[i] = s[i] /\ u[i].key \in A
        <3>1. j \in DOMAIN s /\ u[j] = s[j]  BY <1>4, <1>7, <2>1
        <3>. QED  BY <1>7, <2>1, <3>1 DEF Gets
    <2>2. CASE i - Len(s) \in DOMAIN t /\ u[i] = t[i - Len(s)] /\ u[i].key \in B
        <3>1. j - Len(s) \in DOMAIN t /\ u[j] = t[j - Len(s)]  BY <1>4, <1>7, <2>2
        <3>2. i - Len(s) = j - Len(s)  BY <1>7, <2>2, <3>1 DEF Gets
        <3>. QED  BY <1>2, <1>3, <3>2
    <2>. QED  BY <1>4, <2>1, <2>2
<1>. QED  BY <1>3, <1>5, <1>6, <1>7 DEF Gets, u

ScopeKeys(scope) == {mk_pool_setting(s, scope) : s \in Settings}

LEMMA KeysAre ==
    /\ \A s : /\ mk_pool_setting(s, "global") = s /\ mk_pool_setting(s, "type") = TypeKey[s]
              /\ mk_pool_setting(s, "pool") = PoolKey[s]
    /\ Settings = {"PROTOCOL_SWAP_FEE_PERC", "PROTOCOL_FEE_GYRO_PORTION"}
    /\ TypeKey["PROTOCOL_SWAP_FEE_PERC"] = "SWAP_FEE of type"
    /\ TypeKey["PROTOCOL_FEE_GYRO_PORTION"] = "GYRO_PORTION of type"
    /\ PoolKey["PROTOCOL_SWAP_FEE_PERC"] = "SWAP_FEE of pool"
    /\ PoolKey["PROTOCOL_FEE_GYRO_PORTION"] = "GYRO_PORTION of pool"
<1>1. \A s : /\ mk_pool_setting(s, "global") = s /\ mk_pool_setting(s, "type") = TypeKey[s]
             /\ mk_pool_setting(s, "pool") = PoolKey[s]
    BY DEF mk_pool_setting
<1>. QED  BY <1>1 DEF Settings, TypeKey, PoolKey

LEMMA SettingKeys ==
    ASSUME NEW scope \in {"global", "type", "pool"}, NEW s \in Settings
    PROVE  /\ KeyTyped(mk_pool_setting(s, scope), "uint")
           /\ \A r \in Settings : mk_pool_setting(s, scope) = mk_pool_setting(r, scope) => s = r
<1>. DEFINE key == mk_pool_setting(s, scope)
<1>1. key \in {s, TypeKey[s], PoolKey[s]}  BY KeysAre
<1>2. key \in {"PROTOCOL_SWAP_FEE_PERC", "PROTOCOL_FEE_GYRO_PORTION", "SWAP_FEE of type",
               "GYRO_PORTION of type", "SWAP_FEE of pool", "GYRO_PORTION of pool"}
    BY <1>1, KeysAre
<1>3. key \in NumberKeys
    BY <1>1 DEF NumberKeys
<1>. HIDE DEF key
<1>4. key \notin AddressKeys  BY <1>2 DEF AddressKeys, Roles, Treasuries
<1>5. KeyTyped(key, "uint")  BY <1>3, <1>4 DEF KeyTyped
<1>6. \A r \in Settings : mk_pool_setting(s, scope) = mk_pool_setting(r, scope) => s = r
    <2>1. CASE scope = "global"  BY <2>1, KeysAre
    <2>2. CASE scope = "type"  BY <2>2, KeysAre
    <2>3. CASE scope = "pool"  BY <2>3, KeysAre
    <2>. QED  BY <2>1, <2>2, <2>3
<1>. QED  BY <1>5, <1>6 DEF key

LEMMA SettingsGets ==
    ASSUME NEW scope \in {"global", "type", "pool"}
    PROVE  Gets(SettingsAt(scope), ScopeKeys(scope))
<1>. DEFINE seq == SettingSeq
            at == SettingsAt(scope)
            Key(s) == mk_pool_setting(s, scope)
<1>1. Enumerates(seq, Settings)
    <2>1. IsFiniteSet(Settings)
        <3>1. Settings = ({} \union {"PROTOCOL_SWAP_FEE_PERC"})
                            \union {"PROTOCOL_FEE_GYRO_PORTION"}
            BY DEF Settings
        <3>2. IsFiniteSet({} \union {"PROTOCOL_SWAP_FEE_PERC"})
            BY FS_EmptySet, FS_AddElement
        <3>. QED  BY <3>1, <3>2, FS_AddElement
    <2>. QED  BY <2>1, InOrderEnumerates DEF SettingSeq
<1>. HIDE DEF seq
<1>2. at = [i \in DOMAIN seq |-> get_pool_setting(Key(seq[i]), "uint")]
    BY DEF SettingsAt, seq
<1>. HIDE DEF at
<1>3. IsSequence(at)  BY <1>1, <1>2, SameLength DEF Enumerates
<1>. HIDE DEF Key
<1>4. /\ DOMAIN at = DOMAIN seq
      /\ \A i \in DOMAIN at : /\ at[i].call = "get" /\ at[i].caught = TRUE
                              /\ at[i].key = Key(seq[i]) /\ at[i].type = "uint"
    BY <1>2 DEF get_pool_setting, Lookup
<1>5. \A s \in Settings : /\ KeyTyped(Key(s), "uint")
                          /\ \A r \in Settings : Key(s) = Key(r) => s = r
    BY SettingKeys DEF Key
<1>6. ScopeKeys(scope) = {Key(s) : s \in Settings}  BY DEF ScopeKeys, Key
<1>. QED  BY <1>1, <1>3, <1>4, <1>5, <1>6 DEF Gets, Enumerates, at

LEMMA TreasuriesGets == Gets(TreasuryLookups, Treasuries)
<1>. DEFINE seq == TreasurySeq
            at == TreasuryLookups
<1>1. Enumerates(seq, Treasuries)
    <2>1. IsFiniteSet(Treasuries)
        <3>1. Treasuries = ({} \union {"BAL_TREASURY"}) \union {"GYRO_TREASURY"}
            BY DEF Treasuries
        <3>2. IsFiniteSet({} \union {"BAL_TREASURY"})  BY FS_EmptySet, FS_AddElement
        <3>. QED  BY <3>1, <3>2, FS_AddElement
    <2>. QED  BY <2>1, InOrderEnumerates DEF TreasurySeq
<1>. HIDE DEF seq
<1>2. at = [i \in DOMAIN seq |-> get_pool_setting(seq[i], "address")]
    BY DEF TreasuryLookups, seq
<1>. HIDE DEF at
<1>3. IsSequence(at)  BY <1>1, <1>2, SameLength DEF Enumerates
<1>4. /\ DOMAIN at = DOMAIN seq
      /\ \A i \in DOMAIN at : /\ at[i].call = "get" /\ at[i].caught = TRUE
                              /\ at[i].key = seq[i] /\ at[i].type = "address"
    BY <1>2 DEF get_pool_setting, Lookup
<1>5. \A k \in Treasuries : KeyTyped(k, "address")  BY DEF KeyTyped, AddressKeys
<1>. QED  BY <1>1, <1>3, <1>4, <1>5 DEF Gets, Enumerates, at

LEMMA ScopesApart ==
    /\ Treasuries \cap ScopeKeys("global") = {}
    /\ (Treasuries \union ScopeKeys("global")) \cap ScopeKeys("type") = {}
    /\ (Treasuries \union ScopeKeys("global")) \cap ScopeKeys("pool") = {}
    /\ ScopeKeys("type") \cap ScopeKeys("pool") = {}
    /\ \A s \in Settings : KeysOf(s) \subseteq ScopeKeys("global") \union ScopeKeys("type")
                                                   \union ScopeKeys("pool")
<1>1. /\ ScopeKeys("global") = {"PROTOCOL_SWAP_FEE_PERC", "PROTOCOL_FEE_GYRO_PORTION"}
      /\ ScopeKeys("type") = {"SWAP_FEE of type", "GYRO_PORTION of type"}
      /\ ScopeKeys("pool") = {"SWAP_FEE of pool", "GYRO_PORTION of pool"}
    <2>1. ScopeKeys("global") = {s : s \in Settings}  BY KeysAre DEF ScopeKeys
    <2>2. ScopeKeys("type") = {TypeKey[s] : s \in Settings}  BY KeysAre DEF ScopeKeys
    <2>3. ScopeKeys("pool") = {PoolKey[s] : s \in Settings}  BY KeysAre DEF ScopeKeys
    <2>. QED  BY <2>1, <2>2, <2>3, KeysAre
<1>2. \A s \in Settings : KeysOf(s) = {s, TypeKey[s], PoolKey[s]}
    <2>1. /\ DOMAIN Scopes = {1, 2, 3}
          /\ Scopes[1] = "global" /\ Scopes[2] = "type" /\ Scopes[3] = "pool"
        BY DEF Scopes
    <2>2. \A s \in Settings : KeysOf(s) = {mk_pool_setting(s, "global"),
                                 mk_pool_setting(s, "type"), mk_pool_setting(s, "pool")}
        BY <2>1 DEF KeysOf
    <2>. QED  BY <2>2, KeysAre
<1>3. \A s \in Settings : /\ s \in ScopeKeys("global") /\ TypeKey[s] \in ScopeKeys("type")
                          /\ PoolKey[s] \in ScopeKeys("pool")
    BY KeysAre DEF ScopeKeys
<1>4. \A s \in Settings : KeysOf(s) \subseteq ScopeKeys("global") \union ScopeKeys("type")
                                                  \union ScopeKeys("pool")
    BY <1>2, <1>3
<1>. QED  BY <1>1, <1>4 DEF Treasuries

LEMMA GettersAre ==
    ASSUME NEW s, NEW keys, Gets(s, keys), NEW script
    PROVE  /\ IsSequence(s) /\ Paired(s)
           /\ \A i \in DOMAIN s : LookupOf(script, s[i])
<1>1. \A i \in DOMAIN s : LookupOf(script, s[i])  BY DEF Gets, LookupOf
<1>2. Paired(s)  BY DEF Gets, Paired
<1>. QED  BY <1>1, <1>2 DEF Gets

LEMMA Halves ==
    ASSUME NEW n \in Nat, NEW i \in 1..(2 * n)
    PROVE  /\ i % 2 = 1 => /\ i + 1 \in 1..(2 * n) /\ (i + 1) % 2 # 1
                           /\ (i + 1) \div 2 \in 1..n
           /\ i % 2 # 1 => /\ i \div 2 \in 1..n /\ (i + 1) % 2 = 1
                           /\ \A j \in 1..(2 * n) : j + 1 = i => j % 2 = 1
OBVIOUS

\* Two calls for each key of a sequence.
InPairs(s, keys, one, other) ==
    /\ s = [i \in 1..(2 * Len(keys)) |-> s[i]]
    /\ \A i \in 1..(2 * Len(keys)) :
          /\ i % 2 = 1 => s[i].call = one /\ s[i].key = keys[(i + 1) \div 2]
          /\ i % 2 # 1 => s[i].call = other /\ s[i].key = keys[i \div 2]

LEMMA PairsAre ==
    ASSUME NEW keys, IsSequence(keys), NEW s, NEW one, NEW other, InPairs(s, keys, one, other),
           (one = "meta" /\ other = "typed") \/ (one = "has" /\ other = "named")
    PROVE  /\ IsSequence(s) /\ Paired(s) /\ DOMAIN s = 1..(2 * Len(keys))
           /\ \A i \in DOMAIN s : \E j \in DOMAIN keys : s[i].key = keys[j]
           /\ s # <<>> => s[1].call = one
<1>1. Len(keys) \in Nat /\ DOMAIN keys = 1..Len(keys)  BY LengthOf
<1>. DEFINE n == Len(keys)
<1>2. /\ 2 * n \in Nat /\ DOMAIN s = 1..(2 * n)
      /\ s \in [1..(2 * n) -> {s[i] : i \in DOMAIN s}]
    BY <1>1 DEF InPairs
<1>3. IsSequence(s)  BY <1>2, IsASeq DEF IsSequence
<1>4. \A i \in 1..(2 * n) :
          /\ i % 2 = 1 => s[i].call = one /\ s[i].key = keys[(i + 1) \div 2]
          /\ i % 2 # 1 => s[i].call = other /\ s[i].key = keys[i \div 2]
    BY DEF InPairs
<1>5. ASSUME NEW i \in 1..(2 * n) PROVE \E j \in DOMAIN keys : s[i].key = keys[j]
    BY <1>1, <1>4, Halves
<1>6. s # <<>> => s[1].call = one
    <2>1. s # <<>> => 1 \in DOMAIN s  BY <1>3, TailOf
    <2>2. 1 % 2 = 1  OBVIOUS
    <2>. QED  BY <1>2, <1>4, <2>1, <2>2
<1>7. Paired(s)
    <2>1. ASSUME NEW i \in DOMAIN s
          PROVE  /\ s[i].call = one =>
                        /\ i + 1 \in DOMAIN s /\ s[i + 1].call = other
                        /\ s[i + 1].key = s[i].key
                 /\ i + 1 \in DOMAIN s /\ s[i + 1].call = other => s[i].call = one
                 /\ s[i].call \in {one, other}
        <3>1. i \in 1..(2 * n) /\ i \in Nat  BY <1>1, <1>2
        <3>2. CASE i % 2 = 1
            <4>1. /\ i + 1 \in 1..(2 * n) /\ (i + 1) % 2 # 1  BY <1>1, <3>1, <3>2, Halves
            <4>2. s[i].call = one /\ s[i].key = keys[(i + 1) \div 2]  BY <1>4, <3>1, <3>2
            <4>3. s[i + 1].call = other /\ s[i + 1].key = keys[(i + 1) \div 2]
                BY <1>4, <4>1
            <4>. QED  BY <1>2, <4>1, <4>2, <4>3
        <3>3. CASE i % 2 # 1
            <4>1. s[i].call = other /\ one # other  BY <1>4, <3>1, <3>3
            <4>2. (i + 1) % 2 = 1  BY <1>1, <3>1, <3>3, Halves
            <4>3. i + 1 \in DOMAIN s => s[i + 1].call = one  BY <1>2, <1>4, <4>2
            <4>. QED  BY <4>1, <4>3
        <3>. QED  BY <3>2, <3>3
    <2>. QED  BY <2>1 DEF Paired
<1>. QED  BY <1>2, <1>3, <1>5, <1>6, <1>7

\* A program that a reader may start.
Fit(script, s) ==
    /\ IsSequence(s) /\ Paired(s)
    /\ \A i \in DOMAIN s :
          /\ LookupOf(script, s[i])
          /\ s[i].call \in {"meta", "typed"} => s[i].key \in DOMAIN config
    /\ s # <<>> => s[1].call \notin {"typed", "named"}

LEMMA GettersFit ==
    ASSUME NEW s, NEW keys, Gets(s, keys), NEW script
    PROVE  Fit(script, s)
<1>1. s # <<>> => 1 \in DOMAIN s  BY TailOf DEF Gets
<1>. QED  BY <1>1, GettersAre DEF Fit, Gets

LEMMA ReadMainGets ==
    /\ \E keys : Gets(read_main, keys) /\ \A s \in Settings : KeysOf(s) \subseteq keys
    /\ \E keys : Gets(get_vals, keys)
    /\ \E keys : Gets(pull_pool_specific, keys)
<1>. DEFINE T == TreasuryLookups
            G == SettingsAt("global")
            Y == SettingsAt("type")
            P == SettingsAt("pool")
            tg == Treasuries \union ScopeKeys("global")
            tgy == tg \union ScopeKeys("type")
<1>1. /\ Gets(T, Treasuries) /\ Gets(G, ScopeKeys("global")) /\ Gets(Y, ScopeKeys("type"))
      /\ Gets(P, ScopeKeys("pool"))
    BY TreasuriesGets, SettingsGets
<1>2. Gets(T \o G, tg)  BY <1>1, ScopesApart, GetsJoined
<1>3. Gets((T \o G) \o Y, tgy)  BY <1>1, <1>2, ScopesApart, GetsJoined
<1>4. tgy \cap ScopeKeys("pool") = {}  BY ScopesApart
<1>5. Gets(((T \o G) \o Y) \o P, tgy \union ScopeKeys("pool"))
    BY <1>1, <1>3, <1>4, GetsJoined
<1>6. Gets((T \o G) \o P, tg \union ScopeKeys("pool"))  BY <1>1, <1>2, ScopesApart, GetsJoined
<1>7. Gets(Y \o P, ScopeKeys("type") \union ScopeKeys("pool"))
    BY <1>1, ScopesApart, GetsJoined
<1>8. \A s \in Settings : KeysOf(s) \subseteq tgy \union ScopeKeys("pool")  BY ScopesApart
<1>. HIDE DEF T, G, Y, P, tg, tgy
<1>9. /\ read_main = ((T \o G) \o Y) \o P /\ get_vals = (T \o G) \o P
      /\ pull_pool_specific = Y \o P
    BY DEF read_main, get_vals, pull_pool_specific, T, G, Y, P
<1>. QED  BY <1>5, <1>6, <1>7, <1>8, <1>9

LEMMA PullFits ==
    ASSUME ConfigOK
    PROVE  Fit("pull", pull_gyroconfig)
<1>. DEFINE keys == InOrder(DOMAIN config)
            s == pull_gyroconfig
<1>1. Enumerates(keys, DOMAIN config)  BY InOrderEnumerates DEF ConfigOK
<1>. HIDE DEF keys
<1>2. s = [i \in 1..(2 * Len(keys)) |->
              IF i % 2 = 1 THEN Lookup("meta", keys[(i + 1) \div 2], "", FALSE)
                           ELSE Lookup("typed", keys[i \div 2], "", FALSE)]
    BY DEF pull_gyroconfig, ForEach, keys
<1>. HIDE DEF s
<1>3. \A i \in 1..(2 * Len(keys)) :
          s[i].call \in {"meta", "typed"} /\ s[i].caught = FALSE
    BY <1>2 DEF Lookup
<1>4. InPairs(s, keys, "meta", "typed")  BY <1>2 DEF InPairs, Lookup
<1>5. /\ IsSequence(s) /\ Paired(s) /\ DOMAIN s = 1..(2 * Len(keys))
      /\ \A i \in DOMAIN s : \E j \in DOMAIN keys : s[i].key = keys[j]
      /\ s # <<>> => s[1].call = "meta"
    BY <1>1, <1>4, PairsAre DEF Enumerates
<1>. QED  BY <1>1, <1>3, <1>5 DEF Fit, LookupOf, Enumerates, s

LEMMA CheckFits == Fit("check", check_main)
<1>. DEFINE keys == InOrder(KnownKeys)
            s == check_main
<1>1. Enumerates(keys, KnownKeys)
    <2>1. IsFiniteSet(DOMAIN Roles)
        <3>1. DOMAIN Roles = {"GYD_TOKEN", "VAULT_REGISTRY", "ASSET_REGISTRY", "RESERVE",
                 "RESERVE_MANAGER", "PAMM", "FEE_HANDLER", "MOTHERBOARD", "STEWARDSHIP_INC",
                 "GYD_RECOVERY", "ROOT_SAFETY_CHECK", "ROOT_SAFETY_CHECK"}
            BY DEF Roles
        <3>2. IsFiniteSet({"GYD_TOKEN", "VAULT_REGISTRY", "ASSET_REGISTRY", "RESERVE",
                 "RESERVE_MANAGER", "PAMM", "FEE_HANDLER", "MOTHERBOARD", "STEWARDSHIP_INC",
                 "GYD_RECOVERY", "ROOT_SAFETY_CHECK", "ROOT_SAFETY_CHECK"})
            BY TwelveFinite, Zenon
        <3>. QED  BY <3>1, <3>2
    <2>2. IsFiniteSet(Settings \union Treasuries \union {"BALANCER_VAULT", "ROOT_PRICE_ORACLE"})
        <3>1. Settings \union Treasuries \union {"BALANCER_VAULT", "ROOT_PRICE_ORACLE"} =
                {"PROTOCOL_SWAP_FEE_PERC", "PROTOCOL_FEE_GYRO_PORTION", "BAL_TREASURY",
                 "GYRO_TREASURY", "BALANCER_VAULT", "ROOT_PRICE_ORACLE", "ROOT_PRICE_ORACLE",
                 "ROOT_PRICE_ORACLE", "ROOT_PRICE_ORACLE", "ROOT_PRICE_ORACLE",
                 "ROOT_PRICE_ORACLE", "ROOT_PRICE_ORACLE"}
            BY DEF Settings, Treasuries
        <3>2. IsFiniteSet({"PROTOCOL_SWAP_FEE_PERC", "PROTOCOL_FEE_GYRO_PORTION",
                 "BAL_TREASURY", "GYRO_TREASURY", "BALANCER_VAULT", "ROOT_PRICE_ORACLE",
                 "ROOT_PRICE_ORACLE", "ROOT_PRICE_ORACLE", "ROOT_PRICE_ORACLE",
                 "ROOT_PRICE_ORACLE", "ROOT_PRICE_ORACLE", "ROOT_PRICE_ORACLE"})
            BY TwelveFinite, Zenon
        <3>. QED  BY <3>1, <3>2
    <2>3. KnownKeys = DOMAIN Roles \union
             (Settings \union Treasuries \union {"BALANCER_VAULT", "ROOT_PRICE_ORACLE"})
        BY DEF KnownKeys
    <2>. QED  BY <2>1, <2>2, <2>3, FS_Union, InOrderEnumerates
<1>. HIDE DEF keys
<1>2. s = [i \in 1..(2 * Len(keys)) |->
              IF i % 2 = 1 THEN Lookup("has", keys[(i + 1) \div 2], "", TRUE)
              ELSE Lookup("named", keys[i \div 2], TypeByName(keys[i \div 2]), FALSE)]
    BY DEF check_main, ForEach, keys
<1>. HIDE DEF s
<1>3. \A i \in 1..(2 * Len(keys)) :
          \/ s[i].call = "has" /\ s[i].caught = TRUE
          \/ s[i].call = "named" /\ s[i].caught = FALSE /\ s[i].type = TypeByName(s[i].key)
    BY <1>2 DEF Lookup
<1>4. InPairs(s, keys, "has", "named")  BY <1>2 DEF InPairs, Lookup
<1>5. /\ IsSequence(s) /\ Paired(s) /\ DOMAIN s = 1..(2 * Len(keys))
      /\ \A i \in DOMAIN s : \E j \in DOMAIN keys : s[i].key = keys[j]
      /\ s # <<>> => s[1].call = "has"
    BY <1>1, <1>4, PairsAre DEF Enumerates
<1>6. \A i \in DOMAIN s : s[i].key \in KnownKeys  BY <1>1, <1>5 DEF Enumerates
<1>. QED  BY <1>3, <1>5, <1>6 DEF Fit, LookupOf, s

LEMMA ProgramsFit ==
    ASSUME ConfigOK, NEW script \in DOMAIN Program
    PROVE  Fit(script, Program[script])
<1>1. /\ Program["read"] = read_main /\ Program["get_vals"] = get_vals
      /\ Program["pull"] = pull_gyroconfig /\ Program["pull_pools"] = pull_pool_specific
      /\ Program["check"] = check_main
      /\ DOMAIN Program = {"read", "get_vals", "pull", "pull_pools", "check"}
    BY DEF Program
<1>2. /\ Fit("read", read_main) /\ Fit("get_vals", get_vals)
      /\ Fit("pull_pools", pull_pool_specific)
    BY ReadMainGets, GettersFit
<1>. QED  BY <1>1, <1>2, PullFits, CheckFits

-----------------------------------------------------------------------------
(* What the steps of the readers do to what always holds.                  *)

Deploys == DeployNext /\ UNCHANGED <<reading, changes, readHistory>>
ReadsOn == ReadValue \/ ReadMeta \/ ReadTyped \/ ReadHasKey \/ ReadNotSet

LEMMA ReadersStep ==
    ReadersNext => \/ Deploys \/ GovernanceChanges
                   \/ \E script \in DOMAIN Program : StartReader(script)
                   \/ ReadsOn \/ ReaderDies \/ ReaderEnds
BY DEF ReadersNext, Deploys, GovernanceChanges, ReadsOn

LEMMA ReadsFrame ==
    ASSUME ReadsOn
    PROVE  /\ state = "reading" /\ state' = "reading" /\ lookups # <<>>
           /\ UNCHANGED <<deployVars, config, reader, changes, inForce, changedSince, unsetSince>>
<1>1. \E found, left : Reads(found, left)
    BY DEF ReadsOn, ReadValue, ReadMeta, ReadTyped, ReadHasKey, ReadNotSet
<1>. QED  BY <1>1 DEF Reads, readHistory, deployVars, deployment

LEMMA DeploymentStays ==
    ASSUME DeployInv, UNCHANGED deployVars
    PROVE  DeployInv'
<1>1. config' = config  BY DEF deployVars, deployment
<1>2. ConfigOK'  BY <1>1 DEF DeployInv, ConfigOK, KeyTyped
<1>. QED  BY <1>2, SameDeployment DEF deployVars, deployment

LEMMA DeploymentOfReaders ==
    ASSUME DeployInv, ReadersNext
    PROVE  DeployInv'
<1>1. ASSUME NEW script \in DOMAIN Program, StartReader(script) PROVE UNCHANGED deployVars
    BY <1>1 DEF StartReader
<1>2. ReaderDies \/ ReaderEnds => UNCHANGED deployVars  BY DEF ReaderDies, ReaderEnds
<1>. QED  BY <1>1, <1>2, ReadersStep, ReadsFrame, DeploymentStays, GovernedDeployment, DeployInvStep
          DEF Deploys

LEMMA ReaderSteps ==
    ASSUME DeployInv, ReaderOK, ReadersNext
    PROVE  ReaderOK'
<1>i. PlanOK /\ MaxChanges \in Nat  BY ReadersAssumption DEF DeployInv
<1>p. DOMAIN (Program') = DOMAIN Program  BY DEF Program
<1>a. ASSUME UNCHANGED deployVars
      PROVE  /\ Settled' <=> Settled
             /\ next' = next
    BY <1>a DEF deployVars, Settled, plan, limits
<1>1. CASE Deploys
    <2>1. UNCHANGED <<reader, state, lookups, rows, changes, changedSince, unsetSince>>
        BY <1>1 DEF Deploys, reading, readHistory
    <2>2. Settled /\ next > Len(Plan) => Settled' /\ next' > Len(Plan)
        BY <1>1, AfterPlan DEF Deploys
    <2>. QED  BY <1>p, <2>1, <2>2 DEF ReaderOK
<1>2. CASE GovernanceChanges
    <2>1. PICK conf, key : Changes(conf, key)  BY <1>2, ChangeIs
    <2>2. /\ UNCHANGED <<reader, state, lookups, rows, next>> /\ (Settled' <=> Settled)
        BY <2>1 DEF Changes, reading, Settled, plan, limits
    <2>3. /\ changes \in Nat /\ changes < MaxChanges /\ changes' = changes + 1
          /\ \/ state = "reading" /\ changedSince' = changedSince + 1
             \/ UNCHANGED <<changedSince, unsetSince>>
        BY <2>1, <1>i DEF Changes, readHistory, ReaderOK
    <2>4. changes' \in 0..MaxChanges /\ changedSince' \in 0..changes'
        BY <1>i, <2>3 DEF ReaderOK
    <2>. QED  BY <1>p, <2>2, <2>3, <2>4 DEF ReaderOK
<1>3. ASSUME NEW script \in DOMAIN Program, StartReader(script) PROVE ReaderOK'
    <2>1. next > Len(Plan)  BY <1>3, <1>i DEF StartReader, Settled, PlanOK
    <2>. QED  BY <1>3, <1>a, <1>p, <2>1 DEF StartReader, ReaderOK
<1>4. CASE ReadsOn
    <2>1. /\ state = "reading" /\ state' = "reading"
          /\ UNCHANGED <<deployVars, reader, changes, changedSince>>
        BY <1>4, ReadsFrame
    <2>. QED  BY <1>a, <1>p, <2>1 DEF ReaderOK
<1>5. CASE ReaderDies  BY <1>5, <1>a, <1>p DEF ReaderDies, ReaderOK, readHistory
<1>6. CASE ReaderEnds  BY <1>6, <1>a, <1>p DEF ReaderEnds, ReaderOK, readHistory
<1>. QED  BY <1>1, <1>2, <1>3, <1>4, <1>5, <1>6, ReadersStep

\* A step that neither the reader takes nor touches what it reads.
LEMMA SameReader ==
    ASSUME UNCHANGED <<config, reader, state, lookups, rows, inForce, changedSince, unsetSince>>
    PROVE  /\ LookupsOK => LookupsOK'
           /\ RowsOK => RowsOK'
           /\ SeenOK => SeenOK'
           /\ DiesOnlyOf => DiesOnlyOf'
<1>1. LookupsOK => LookupsOK'  BY DEF LookupsOK, KnownOrUnset
<1>2. RowsOK => RowsOK'  BY DEF RowsOK
<1>3. SeenOK => SeenOK'  BY DEF SeenOK, Seen, Ahead
<1>4. DiesOnlyOf => DiesOnlyOf'  BY DEF DiesOnlyOf, Next1
<1>. QED  BY <1>1, <1>2, <1>3, <1>4

LEMMA DeploysSame ==
    ASSUME DeployInv, ReaderOK, Deploys
    PROVE  /\ UNCHANGED <<reader, state, lookups, rows, inForce, changedSince, unsetSince>>
           /\ state # "idle" => config' = config
BY AfterPlan DEF Deploys, reading, readHistory, ReaderOK

\* What is left of the calls after the first.
LEMMA RestPaired ==
    ASSUME NEW s, IsSequence(s), Paired(s), s # <<>>
    PROVE  /\ Head(s) = s[1] /\ 1 \in DOMAIN s
           /\ IsSequence(Tail(s)) /\ Paired(Tail(s))
           /\ \A i \in DOMAIN Tail(s) : \E j \in DOMAIN s : Tail(s)[i] = s[j]
           /\ Tail(s) # <<>> => 2 \in DOMAIN s /\ Tail(s)[1] = s[2]
           /\ s[1].call \in {"meta", "has"} => Tail(s) # <<>>
<1>. DEFINE t == Tail(s)
<1>1. /\ Head(s) = s[1] /\ 1 \in DOMAIN s /\ IsSequence(t)
      /\ Len(t) = Len(s) - 1 /\ Len(t) \in Nat
      /\ \A i \in DOMAIN t : i + 1 \in DOMAIN s /\ t[i] = s[i + 1]
    BY TailOf
<1>2. Len(s) \in Nat /\ DOMAIN s = 1..Len(s)  BY LengthOf
<1>3. DOMAIN t = 1..Len(t)  BY <1>1, LengthOf
<1>4. t # <<>> => 1 \in DOMAIN t  BY <1>1, TailOf
<1>5. 2 \in DOMAIN s => t # <<>>
    <2>1. 2 \in DOMAIN s => 1 \in DOMAIN t  BY <1>1, <1>2, <1>3
    <2>2. DOMAIN <<>> = {}
        <3>. DEFINE e == <<>>
        <3>1. IsSequence(e) /\ Len(e) = 0  BY Singles
        <3>. HIDE DEF e
        <3>2. DOMAIN e = {}  BY <3>1, LengthOf
        <3>. QED  BY <3>2 DEF e
    <2>. HIDE DEF t
    <2>. QED  BY <2>1, <2>2
<1>. HIDE DEF t
<1>6. ASSUME NEW i \in DOMAIN t
      PROVE  /\ t[i].call = "meta" =>
                  i + 1 \in DOMAIN t /\ t[i + 1].call = "typed" /\ t[i + 1].key = t[i].key
             /\ t[i].call = "has" =>
                  i + 1 \in DOMAIN t /\ t[i + 1].call = "named" /\ t[i + 1].key = t[i].key
             /\ i + 1 \in DOMAIN t /\ t[i + 1].call \in {"typed", "named"} =>
                  t[i].call \in {"meta", "has"}
    <2>1. i \in Nat /\ i + 1 \in DOMAIN s /\ t[i] = s[i + 1]  BY <1>1, <1>3
    <2>2. (i + 1) + 1 \in DOMAIN s <=> i + 1 \in DOMAIN t  BY <1>1, <1>2, <1>3, <2>1
    <2>3. i + 1 \in DOMAIN t => t[i + 1] = s[(i + 1) + 1]  BY <1>1
    <2>. QED  BY <2>1, <2>2, <2>3 DEF Paired
<1>7. Paired(t)  BY <1>6 DEF Paired
<1>8. s[1].call \in {"meta", "has"} => 1 + 1 \in DOMAIN s  BY <1>1 DEF Paired
<1>9. 1 + 1 = 2  OBVIOUS
<1>10. t # <<>> => t[1] = s[1 + 1] /\ 1 + 1 \in DOMAIN s  BY <1>1, <1>4
<1>. QED  BY <1>1, <1>5, <1>7, <1>8, <1>9, <1>10 DEF t

\* The call that a reader makes next.
LEMMA NextCall ==
    ASSUME LookupsOK, state = "reading", lookups # <<>>
    PROVE  /\ Next1 = lookups[1] /\ 1 \in DOMAIN lookups /\ LookupOf(reader, lookups[1])
           /\ IsSequence(Tail(lookups)) /\ Paired(Tail(lookups))
           /\ \A i \in DOMAIN Tail(lookups) :
                  /\ LookupOf(reader, Tail(lookups)[i])
                  /\ Tail(lookups)[i].call \in {"meta", "typed"} =>
                        KnownOrUnset(Tail(lookups)[i].key)
           /\ Tail(lookups) # <<>> =>
                  /\ 2 \in DOMAIN lookups /\ Tail(lookups)[1] = lookups[2]
                  /\ lookups[2].call \in {"typed", "named"} => lookups[1].call \in {"meta", "has"}
           /\ lookups[1].call = "meta" =>
                  /\ Tail(lookups) # <<>>
                  /\ lookups[2].call = "typed" /\ lookups[2].key = lookups[1].key
           /\ lookups[1].call = "has" =>
                  /\ Tail(lookups) # <<>>
                  /\ lookups[2].call = "named" /\ lookups[2].key = lookups[1].key
<1>1. IsSequence(lookups) /\ Paired(lookups)  BY DEF LookupsOK
<1>2. /\ Head(lookups) = lookups[1] /\ 1 \in DOMAIN lookups
      /\ IsSequence(Tail(lookups)) /\ Paired(Tail(lookups))
      /\ \A i \in DOMAIN Tail(lookups) : \E j \in DOMAIN lookups : Tail(lookups)[i] = lookups[j]
      /\ Tail(lookups) # <<>> => 2 \in DOMAIN lookups /\ Tail(lookups)[1] = lookups[2]
      /\ lookups[1].call \in {"meta", "has"} => Tail(lookups) # <<>>
    BY <1>1, RestPaired
<1>3. PICK i \in DOMAIN lookups : i = 1 /\ i + 1 = 2  BY <1>2
<1>4. /\ 2 \in DOMAIN lookups /\ lookups[2].call \in {"typed", "named"} =>
            lookups[1].call \in {"meta", "has"}
      /\ lookups[1].call = "meta" => lookups[2].call = "typed" /\ lookups[2].key = lookups[1].key
      /\ lookups[1].call = "has" => lookups[2].call = "named" /\ lookups[2].key = lookups[1].key
    BY <1>1, <1>2, <1>3 DEF Paired
<1>. QED  BY <1>2, <1>4 DEF LookupsOK, Next1

LEMMA LookupSteps ==
    ASSUME DeployInv, ReaderOK, LookupsOK, RowsOK, ReadersNext
    PROVE  LookupsOK'
<1>. DEFINE rest == Tail(lookups)
<1>1. CASE Deploys
    <2>1. CASE state = "idle"  BY <1>1, <2>1 DEF Deploys, reading, LookupsOK
    <2>2. CASE state # "idle"  BY <1>1, <2>2, DeploysSame, SameReader
    <2>. QED  BY <2>1, <2>2
<1>2. CASE GovernanceChanges
    <2>1. PICK conf, key : Changes(conf, key) /\ Alters(key)  BY <1>2, ChangeIs
    <2>2. UNCHANGED <<reader, state, lookups, rows>>  BY <2>1 DEF Changes, reading
    <2>3. ASSUME state = "reading", NEW k, KnownOrUnset(k) PROVE KnownOrUnset(k)'
        <3>1. /\ config' = conf
              /\ unsetSince' = IF HasKey(conf, key) THEN unsetSince
                               ELSE unsetSince \union {key}
            BY <2>1, <2>3 DEF Changes
        <3>2. CASE k = key  BY <2>3, <3>1, <3>2 DEF KnownOrUnset, HasKey
        <3>3. CASE k # key  BY <2>1, <2>3, <3>1, <3>3 DEF KnownOrUnset, HasKey, Alters
        <3>. QED  BY <3>2, <3>3
    <2>. QED  BY <2>2, <2>3 DEF LookupsOK
<1>3. ASSUME NEW script \in DOMAIN Program, StartReader(script) PROVE LookupsOK'
    <2>1. /\ reader' = script /\ lookups' = Program[script] /\ UNCHANGED <<config, unsetSince>>
        BY <1>3 DEF StartReader, deployVars, deployment
    <2>2. Fit(script, Program[script])  BY ProgramsFit DEF DeployInv
    <2>. HIDE DEF Program
    <2>3. Fit(script, lookups')  BY <2>1, <2>2
    <2>4. lookups' # <<>> => 1 \in DOMAIN lookups'  BY <2>3, TailOf DEF Fit
    <2>. QED  BY <2>1, <2>3, <2>4 DEF Fit, LookupsOK, KnownOrUnset
<1>4. CASE ReadsOn
    <2>1. /\ state = "reading" /\ state' = "reading" /\ lookups # <<>>
          /\ UNCHANGED <<config, reader, unsetSince>>
        BY <1>4, ReadsFrame
    <2>a. \A k : KnownOrUnset(k)' <=> KnownOrUnset(k)  BY <2>1 DEF KnownOrUnset
    <2>2. ASSUME lookups' = rest, lookups[1].call \notin {"meta", "has"} PROVE LookupsOK'
        BY <2>1, <2>2, <2>a, NextCall DEF LookupsOK
    <2>3. CASE ReadValue \/ ReadTyped \/ ReadNotSet
        BY <2>1, <2>2, <2>3, NextCall DEF ReadValue, ReadTyped, ReadNotSet, Reads
    <2>4. CASE ReadMeta
        <3>1. /\ lookups[1].call = "meta" /\ lookups' = rest
              /\ lookups[1].key \in DOMAIN rows'
            BY <2>1, <2>4, NextCall DEF ReadMeta, Reads, Row, Put
        <3>. QED  BY <2>1, <2>a, <3>1, NextCall DEF LookupsOK
    <2>5. CASE ReadHasKey
        <3>1. /\ lookups[1].call = "has"
              /\ lookups' = IF HasKey(config, lookups[1].key) THEN rest ELSE Tail(rest)
            BY <2>1, <2>5, NextCall DEF ReadHasKey, Reads
        <3>2. CASE HasKey(config, lookups[1].key)
            <4>1. KnownOrUnset(lookups[1].key)  BY <3>2 DEF HasKey, KnownOrUnset
            <4>. QED  BY <2>1, <2>a, <3>1, <3>2, <4>1, NextCall DEF LookupsOK
        <3>3. CASE ~HasKey(config, lookups[1].key)
            <4>1. /\ IsSequence(rest) /\ Paired(rest) /\ rest # <<>> /\ rest[1].call = "named"
                  /\ \A i \in DOMAIN rest :
                        /\ LookupOf(reader, rest[i])
                        /\ rest[i].call \in {"meta", "typed"} => KnownOrUnset(rest[i].key)
                BY <2>1, <3>1, NextCall
            <4>. HIDE DEF rest
            <4>2. /\ IsSequence(Tail(rest)) /\ Paired(Tail(rest)) /\ 1 \in DOMAIN rest
                  /\ \A i \in DOMAIN Tail(rest) : \E j \in DOMAIN rest : Tail(rest)[i] = rest[j]
                  /\ Tail(rest) # <<>> => 2 \in DOMAIN rest /\ Tail(rest)[1] = rest[2]
                BY <4>1, RestPaired
            <4>3. 1 + 1 = 2  OBVIOUS
            <4>4. Tail(rest) # <<>> => Tail(rest)[1].call \notin {"typed", "named"}
                BY <4>1, <4>2, <4>3 DEF Paired
            <4>. QED  BY <2>1, <2>a, <3>1, <3>3, <4>1, <4>2, <4>4 DEF LookupsOK
        <3>. QED  BY <3>2, <3>3
    <2>. QED  BY <1>4, <2>3, <2>4, <2>5 DEF ReadsOn
<1>5. CASE ReaderDies \/ ReaderEnds  BY <1>5 DEF ReaderDies, ReaderEnds, LookupsOK
<1>. QED  BY <1>1, <1>2, <1>3, <1>4, <1>5, ReadersStep

\* What must hold of each row.
RowFits(k) ==
    /\ KeyTyped(k, rows[k].type)
    /\ rows[k] = [type |-> rows[k].type, value |-> rows[k].value, frozen |-> rows[k].frozen]
    /\ rows[k].frozen =>
          /\ HasKey(config, k) /\ config[k].frozen
          /\ \/ config[k].value = rows[k].value
             \/ /\ state \in {"reading", "dead"} /\ lookups # <<>>
                /\ lookups[1].call = "typed" /\ lookups[1].key = k

LEMMA RowSteps ==
    ASSUME DeployInv, ReaderOK, LookupsOK, RowsOK, ReadersNext
    PROVE  RowsOK'
<1>r. \A k \in DOMAIN rows : RowFits(k)  BY DEF RowsOK, RowFits
<1>s. (\A k \in DOMAIN rows' : RowFits(k)') => RowsOK'  BY DEF RowsOK, RowFits
<1>c. ConfigOK  BY DEF DeployInv
<1>1. CASE Deploys
    <2>1. CASE state = "idle"
        <3>1. DOMAIN rows' = {}  BY <1>1, <2>1 DEF Deploys, reading, ReaderOK, EmptyConfig
        <3>. QED  BY <3>1 DEF RowsOK
    <2>2. CASE state # "idle"  BY <1>1, <2>2, DeploysSame, SameReader
    <2>. QED  BY <2>1, <2>2
<1>2. CASE GovernanceChanges
    <2>1. PICK conf, key : Changes(conf, key) /\ Alters(key)  BY <1>2, ChangeIs
    <2>2. UNCHANGED <<reader, state, lookups, rows>>  BY <2>1 DEF Changes, reading
    <2>3. ASSUME NEW k \in DOMAIN rows, rows[k].frozen
          PROVE  HasKey(config, k)' /\ config'[k] = config[k]
        <3>1. HasKey(config, k) /\ config[k].frozen  BY <1>r, <2>3 DEF RowFits
        <3>. QED  BY <2>1, <3>1 DEF Alters
    <2>4. ASSUME NEW k \in DOMAIN rows PROVE RowFits(k)'
        BY <1>r, <2>2, <2>3 DEF RowFits
    <2>. QED  BY <1>s, <2>2, <2>4
<1>3. ASSUME NEW script \in DOMAIN Program, StartReader(script) PROVE RowsOK'
    <2>1. DOMAIN rows' = {}  BY <1>3 DEF StartReader, ReaderOK, EmptyConfig
    <2>. QED  BY <2>1 DEF RowsOK
<1>4. CASE ReadsOn
    <2>1. /\ state = "reading" /\ state' = "reading" /\ lookups # <<>>
          /\ config' = config
        BY <1>4, ReadsFrame
    <2>n. Next1 = lookups[1]  BY <2>1, NextCall
    <2>. DEFINE key == lookups[1].key
    <2>o. ASSUME NEW k \in DOMAIN rows, rows'[k] = rows[k],
                 lookups[1].call = "typed" => k # key
          PROVE  RowFits(k)'
        BY <1>r, <2>1, <2>o DEF RowFits
    <2>2. CASE ReadValue
        <3>1. /\ HasKey(config, key) /\ config[key].type = lookups[1].type
              /\ lookups[1].call \in {"get", "named"}
            BY <2>2, <2>n DEF ReadValue, Readable
        <3>2. rows' = Row(lookups[1].type, config[key].value, FALSE)
            BY <2>2, <2>n DEF ReadValue, Reads
        <3>3. /\ DOMAIN rows' = DOMAIN rows \union {key}
              /\ rows'[key] = [type |-> lookups[1].type, value |-> config[key].value,
                               frozen |-> FALSE]
              /\ \A k \in DOMAIN rows : k # key => rows'[k] = rows[k]
            BY <2>n, <3>2 DEF Row, Put
        <3>4. KeyTyped(key, lookups[1].type)  BY <1>c, <3>1 DEF ConfigOK, HasKey
        <3>5. ASSUME NEW k, k = key PROVE RowFits(k)'
            <4>1. /\ rows'[k].frozen = FALSE /\ rows'[k].type = lookups[1].type
                  /\ rows'[k] = [type |-> rows'[k].type, value |-> rows'[k].value,
                                 frozen |-> rows'[k].frozen]
                BY <3>3, <3>5
            <4>. QED  BY <3>4, <3>5, <4>1 DEF RowFits
        <3>6. ASSUME NEW k \in DOMAIN rows' PROVE RowFits(k)'
            BY <2>o, <3>1, <3>3, <3>5
        <3>. QED  BY <1>s, <3>6
    <2>3. CASE ReadMeta
        <3>1. HasKey(config, key) /\ lookups[1].call = "meta" /\ lookups' = Tail(lookups)
            BY <2>3, <2>n DEF ReadMeta, Reads
        <3>2. rows' = Row(config[key].type, NoAddress, config[key].frozen)
            BY <2>3, <2>n DEF ReadMeta, Reads
        <3>3. /\ DOMAIN rows' = DOMAIN rows \union {key}
              /\ rows'[key] = [type |-> config[key].type, value |-> NoAddress,
                               frozen |-> config[key].frozen]
              /\ \A k \in DOMAIN rows : k # key => rows'[k] = rows[k]
            BY <2>n, <3>2 DEF Row, Put
        <3>4. KeyTyped(key, config[key].type)  BY <1>c, <3>1 DEF ConfigOK, HasKey
        <3>5. lookups' # <<>> /\ lookups'[1].call = "typed" /\ lookups'[1].key = key
            BY <2>1, <3>1, NextCall
        <3>6. ASSUME NEW k, k = key PROVE RowFits(k)'
            <4>1. /\ rows'[k].frozen = config[k].frozen /\ rows'[k].type = config[k].type
                  /\ rows'[k] = [type |-> rows'[k].type, value |-> rows'[k].value,
                                 frozen |-> rows'[k].frozen]
                BY <3>3, <3>6
            <4>2. HasKey(config, k)'  BY <2>1, <3>1, <3>6 DEF HasKey
            <4>. QED  BY <2>1, <3>4, <3>5, <3>6, <4>1, <4>2 DEF RowFits
        <3>7. ASSUME NEW k \in DOMAIN rows' PROVE RowFits(k)'
            BY <2>o, <3>1, <3>3, <3>6
        <3>. QED  BY <1>s, <3>7
    <2>4. CASE ReadTyped
        <3>1. /\ HasKey(config, key) /\ lookups[1].call = "typed"
              /\ rows' = [rows EXCEPT ![key].value = config[key].value]
            BY <2>4, <2>n DEF ReadTyped, Readable, Reads
        <3>2. key \in DOMAIN rows  BY <2>1, <3>1 DEF LookupsOK
        <3>3. DOMAIN rows' = DOMAIN rows /\ \A k \in DOMAIN rows : k # key => rows'[k] = rows[k]
            BY <3>1
        <3>4. ASSUME NEW k, k = key PROVE RowFits(k)'
            <4>. DEFINE old == rows[k]
            <4>1. /\ old = [type |-> old.type, value |-> old.value, frozen |-> old.frozen]
                  /\ KeyTyped(k, old.type)
                  /\ old.frozen => config[k].frozen
                BY <1>r, <3>2, <3>4 DEF RowFits
            <4>2. rows'[k] = [old EXCEPT !.value = config[k].value]  BY <3>1, <3>2, <3>4
            <4>. HIDE DEF old
            <4>3. rows'[k] = [type |-> old.type, value |-> config[k].value,
                              frozen |-> old.frozen]
                BY <4>1, <4>2
            <4>4. /\ rows'[k].frozen = old.frozen /\ rows'[k].type = old.type
                  /\ rows'[k].value = config[k].value
                  /\ rows'[k] = [type |-> rows'[k].type, value |-> rows'[k].value,
                                 frozen |-> rows'[k].frozen]
                BY <4>3
            <4>. QED  BY <2>1, <3>1, <3>4, <4>1, <4>4 DEF RowFits, HasKey
        <3>5. ASSUME NEW k \in DOMAIN rows' PROVE RowFits(k)'
            BY <2>o, <3>3, <3>4
        <3>. QED  BY <1>s, <3>5
    <2>5. CASE ReadHasKey \/ ReadNotSet
        <3>1. rows' = rows /\ lookups[1].call \in {"has", "get"}
            BY <2>5, <2>n DEF ReadHasKey, ReadNotSet, Reads
        <3>. QED  BY <1>s, <2>o, <3>1
    <2>. QED  BY <1>4, <2>2, <2>3, <2>4, <2>5 DEF ReadsOn
<1>5. CASE ReaderDies
    <2>1. /\ state = "reading" /\ state' = "dead"
          /\ UNCHANGED <<config, lookups, rows>>
        BY <1>5 DEF ReaderDies, deployVars, deployment
    <2>2. ASSUME NEW k \in DOMAIN rows PROVE RowFits(k)'  BY <1>r, <2>1 DEF RowFits
    <2>. QED  BY <1>s, <2>1, <2>2
<1>6. CASE ReaderEnds
    <2>1. lookups = <<>> /\ UNCHANGED <<config, lookups, rows>>
        BY <1>6 DEF ReaderEnds, deployVars, deployment
    <2>2. ASSUME NEW k \in DOMAIN rows PROVE RowFits(k)'  BY <1>r, <2>1 DEF RowFits
    <2>. QED  BY <1>s, <2>1, <2>2
<1>. QED  BY <1>1, <1>2, <1>3, <1>4, <1>5, <1>6, ReadersStep

\* A key that the check takes for one it knows has the type of its name, but for the
\* two treasuries.
LEMMA TypesByName ==
    ASSUME NEW key \in KnownKeys, key \notin Treasuries, NEW type, KeyTyped(key, type)
    PROVE  type = TypeByName(key)
<1>1. CASE key \in Settings
    <2>1. key \notin AddressKeys
        BY <1>1, KeysAre DEF AddressKeys, Roles, Treasuries
    <2>. QED  BY <1>1, <2>1 DEF KeyTyped, TypeByName
<1>2. CASE key \notin Settings
    <2>1. key \in AddressKeys  BY <1>2 DEF KnownKeys, AddressKeys
    <2>. QED  BY <1>2, <2>1 DEF KeyTyped, TypeByName
<1>. QED  BY <1>1, <1>2

LEMMA DeathSteps ==
    ASSUME DeployInv, ReaderOK, LookupsOK, RowsOK, DiesOnlyOf, ReadersNext
    PROVE  DiesOnlyOf'
<1>1. CASE Deploys
    <2>1. CASE state = "idle"  BY <1>1, <2>1 DEF Deploys, reading, DiesOnlyOf
    <2>2. CASE state # "idle"  BY <1>1, <2>2, DeploysSame, SameReader
    <2>. QED  BY <2>1, <2>2
<1>2. CASE GovernanceChanges
    <2>1. PICK conf, key : Changes(conf, key)  BY <1>2, ChangeIs
    <2>2. /\ UNCHANGED <<reader, state, lookups>>
          /\ state = "dead" => unsetSince' = unsetSince
        BY <2>1 DEF Changes, reading, readHistory
    <2>. QED  BY <2>2 DEF DiesOnlyOf, Next1
<1>3. ASSUME NEW script \in DOMAIN Program, StartReader(script) PROVE DiesOnlyOf'
    BY <1>3 DEF StartReader, DiesOnlyOf
<1>4. CASE ReadsOn  BY <1>4, ReadsFrame DEF DiesOnlyOf
<1>5. CASE ReaderDies
    <2>1. /\ state = "reading" /\ lookups # <<>> /\ ~Next1.caught
          /\ UNCHANGED <<config, reader, lookups, unsetSince>>
        BY <1>5 DEF ReaderDies, deployVars, deployment, readHistory
    <2>2. Next1 = lookups[1] /\ 1 \in DOMAIN lookups /\ LookupOf(reader, Next1)
        BY <2>1, NextCall
    <2>. DEFINE key == Next1.key
    <2>3. ASSUME key \notin unsetSince PROVE reader = "check" /\ key \in Treasuries
        <3>1. CASE Next1.call = "meta"
            <4>1. HasKey(config, key)  BY <2>1, <2>2, <2>3, <3>1 DEF LookupsOK, KnownOrUnset, HasKey
            <4>. QED  BY <1>5, <3>1, <4>1 DEF ReaderDies, Readable
        <3>2. CASE Next1.call = "typed"
            <4>1. HasKey(config, key) /\ key \in DOMAIN rows
                BY <2>1, <2>2, <2>3, <3>2 DEF LookupsOK, KnownOrUnset, HasKey
            <4>2. KeyTyped(key, rows[key].type) /\ KeyTyped(key, config[key].type)
                BY <4>1 DEF RowsOK, DeployInv, ConfigOK, HasKey
            <4>3. config[key].type = rows[key].type  BY <4>2, KeyOnce
            <4>. QED  BY <1>5, <3>2, <4>1, <4>3 DEF ReaderDies, Readable
        <3>3. CASE Next1.call = "named"
            <4>1. HasKey(config, key)
                BY <2>1, <2>2, <2>3, <3>3 DEF LookupsOK, KnownOrUnset, HasKey
            <4>2. reader = "check" /\ key \in KnownKeys /\ Next1.type = TypeByName(key)
                BY <2>2, <3>3 DEF LookupOf
            <4>3. KeyTyped(key, config[key].type)  BY <4>1 DEF DeployInv, ConfigOK, HasKey
            <4>4. config[key].type # TypeByName(key)
                BY <1>5, <3>3, <4>1, <4>2 DEF ReaderDies, Readable
            <4>. HIDE DEF key
            <4>. QED  BY <4>2, <4>3, <4>4, TypesByName
        <3>. QED  BY <2>1, <2>2, <3>1, <3>2, <3>3 DEF LookupOf
    <2>. QED  BY <2>1, <2>3 DEF DiesOnlyOf, Next1
<1>6. CASE ReaderEnds  BY <1>6 DEF ReaderEnds, DiesOnlyOf
<1>. QED  BY <1>1, <1>2, <1>3, <1>4, <1>5, <1>6, ReadersStep

LEMMA KeysOfAre ==
    ASSUME NEW s \in Settings
    PROVE  KeysOf(s) = {s, TypeKey[s], PoolKey[s]}
<1>1. DOMAIN Scopes = {1, 2, 3} /\ Scopes[1] = "global" /\ Scopes[2] = "type" /\ Scopes[3] = "pool"
    BY DEF Scopes
<1>2. KeysOf(s) = {mk_pool_setting(s, "global"), mk_pool_setting(s, "type"),
                   mk_pool_setting(s, "pool")}
    BY <1>1 DEF KeysOf
<1>. QED  BY <1>2, KeysAre

\* What is in force depends on no more than the keys of the setting.
LEMMA SameInForce ==
    ASSUME NEW s \in Settings, NEW one, NEW other, Agree(one, other, KeysOf(s))
    PROVE  Effective(one, s) = Effective(other, s)
<1>1. /\ HasKey(one, s) <=> HasKey(other, s)
      /\ HasKey(one, TypeKey[s]) <=> HasKey(other, TypeKey[s])
      /\ HasKey(one, PoolKey[s]) <=> HasKey(other, PoolKey[s])
      /\ HasKey(other, s) => one[s].value = other[s].value
      /\ HasKey(other, TypeKey[s]) => one[TypeKey[s]].value = other[TypeKey[s]].value
      /\ HasKey(other, PoolKey[s]) => one[PoolKey[s]].value = other[PoolKey[s]].value
    BY KeysOfAre DEF Agree
<1>. QED  BY <1>1, KeysAre DEF Effective, GetOr

\* A getter that answers, or catches that there is nothing to answer, changes nothing
\* of what the reader will have seen.
LEMMA GetSeesTheSame ==
    ASSUME DeployInv, LookupsOK, ReadsOn, reader = "read", SeenOK
    PROVE  /\ lookups' = Tail(lookups) /\ Ahead' \subseteq Ahead
           /\ \A i \in DOMAIN lookups' : i + 1 \in DOMAIN lookups /\ lookups'[i] = lookups[i + 1]
           /\ Ahead' \cap DOMAIN rows' = {}
           /\ \A keys : Agree(Seen', Seen, keys)
<1>1. /\ state = "reading" /\ lookups # <<>> /\ config' = config  BY ReadsFrame
<1>2. /\ Next1 = lookups[1] /\ 1 \in DOMAIN lookups /\ LookupOf(reader, lookups[1])
    BY <1>1, NextCall
<1>3. /\ \A i, j \in DOMAIN lookups : lookups[i].key = lookups[j].key => i = j
      /\ \A i \in DOMAIN lookups : lookups[i].call = "get"
      /\ Ahead \cap DOMAIN rows = {}
    BY <1>1 DEF SeenOK
<1>. DEFINE key == lookups[1].key
<1>4. IsSequence(lookups) /\ Len(lookups) \in Nat /\ DOMAIN lookups = 1..Len(lookups)
    <2>1. IsSequence(lookups)  BY <1>1 DEF LookupsOK
    <2>. QED  BY <2>1, LengthOf
<1>5. ReadValue \/ ReadNotSet
    BY <1>2, <1>3 DEF ReadsOn, ReadMeta, ReadTyped, ReadHasKey
<1>6. lookups' = Tail(lookups)  BY <1>5 DEF ReadValue, ReadNotSet, Reads
<1>7. /\ IsSequence(lookups') /\ Len(lookups') = Len(lookups) - 1 /\ Len(lookups') \in Nat
      /\ \A i \in DOMAIN lookups' : i + 1 \in DOMAIN lookups /\ lookups'[i] = lookups[i + 1]
    BY <1>1, <1>4, <1>6, TailOf
<1>8. DOMAIN lookups' = 1..(Len(lookups) - 1)  BY <1>7, LengthOf
<1>9. Ahead' = Ahead \ {key} /\ key \in Ahead
    <2>1. ASSUME NEW k \in Ahead' PROVE k \in Ahead \ {key}
        <3>1. PICK i \in DOMAIN lookups' : lookups'[i].key = k  BY <2>1 DEF Ahead
        <3>2. i + 1 \in DOMAIN lookups /\ lookups[i + 1].key = k /\ i + 1 # 1
            BY <1>7, <1>8, <3>1
        <3>. QED  BY <1>2, <1>3, <3>2 DEF Ahead
    <2>2. ASSUME NEW k \in Ahead, k # key PROVE k \in Ahead'
        <3>1. PICK i \in DOMAIN lookups : lookups[i].key = k  BY <2>2 DEF Ahead
        <3>2. i # 1 /\ i \in 1..Len(lookups)  BY <1>4, <2>2, <3>1
        <3>3. i - 1 \in DOMAIN lookups' /\ (i - 1) + 1 = i  BY <1>4, <1>8, <3>2
        <3>4. lookups'[i - 1] = lookups[i]  BY <1>7, <3>3
        <3>. QED  BY <3>1, <3>3, <3>4 DEF Ahead
    <2>3. key \in Ahead  BY <1>2 DEF Ahead
    <2>. HIDE DEF key
    <2>. QED  BY <2>1, <2>2, <2>3
<1>10. \/ /\ HasKey(config, key)
          /\ DOMAIN rows' = DOMAIN rows \union {key}
          /\ rows'[key].value = config[key].value
          /\ \A k \in DOMAIN rows : k # key => rows'[k] = rows[k]
       \/ ~HasKey(config, key) /\ rows' = rows
    <2>1. CASE ReadValue
        <3>1. /\ HasKey(config, key)
              /\ rows' = Row(lookups[1].type, config[key].value, FALSE)
            BY <1>2, <2>1 DEF ReadValue, Readable, Reads
        <3>2. rows' = Put(rows, key, [type |-> lookups[1].type, value |-> config[key].value,
                                      frozen |-> FALSE])
            BY <1>2, <3>1 DEF Row
        <3>3. /\ DOMAIN rows' = DOMAIN rows \union {key}
              /\ rows'[key] = [type |-> lookups[1].type, value |-> config[key].value,
                               frozen |-> FALSE]
              /\ \A k \in DOMAIN rows : k # key => rows'[k] = rows[k]
            BY <3>2 DEF Put
        <3>4. rows'[key].value = config[key].value  BY <3>3
        <3>. HIDE DEF key
        <3>. QED  BY <3>1, <3>3, <3>4
    <2>2. CASE ReadNotSet
        <3>1. rows' = rows /\ ~Readable(config, key, lookups[1].type)
            BY <1>2, <2>2 DEF ReadNotSet, Reads
        <3>2. KeyTyped(key, lookups[1].type)  BY <1>2, <1>3 DEF LookupOf
        <3>3. HasKey(config, key) => KeyTyped(key, config[key].type)
            BY DEF DeployInv, ConfigOK, HasKey
        <3>4. ~HasKey(config, key)  BY <3>1, <3>2, <3>3, KeyOnce DEF Readable
        <3>. QED  BY <3>1, <3>4
    <2>. QED  BY <1>5, <2>1, <2>2
<1>11. Ahead' \cap DOMAIN rows' = {}  BY <1>3, <1>9, <1>10
<1>s. /\ DOMAIN Seen = (DOMAIN rows \ Ahead) \union (DOMAIN config \cap Ahead)
      /\ \A k \in DOMAIN Seen : Seen[k] = IF k \in Ahead THEN config[k] ELSE rows[k]
      /\ DOMAIN Seen' = (DOMAIN rows' \ Ahead') \union (DOMAIN config \cap Ahead')
      /\ \A k \in DOMAIN Seen' : Seen'[k] = IF k \in Ahead' THEN config[k] ELSE rows'[k]
    BY <1>1 DEF Seen
<1>12. ASSUME NEW k
       PROVE  /\ HasKey(Seen', k) <=> HasKey(Seen, k)
              /\ HasKey(Seen, k) => Seen'[k].value = Seen[k].value
    <2>. HIDE DEF key
    <2>1. CASE k = key
        <3>1. k \in Ahead /\ k \notin Ahead' /\ k \notin DOMAIN rows  BY <1>3, <1>9, <2>1
        <3>2. CASE HasKey(config, key)
            <4>1. k \in DOMAIN rows' /\ rows'[k].value = config[k].value  BY <1>10, <2>1, <3>2
            <4>. QED  BY <1>s, <2>1, <3>1, <3>2, <4>1 DEF HasKey
        <3>3. CASE ~HasKey(config, key)
            <4>1. k \notin DOMAIN rows'  BY <1>10, <3>1, <3>3
            <4>. QED  BY <1>s, <2>1, <3>1, <3>3, <4>1 DEF HasKey
        <3>. QED  BY <3>2, <3>3
    <2>2. CASE k # key
        <3>1. (k \in Ahead') <=> (k \in Ahead)  BY <1>9, <2>2
        <3>2. (k \in DOMAIN rows') <=> (k \in DOMAIN rows)  BY <1>10, <2>2
        <3>3. k \in DOMAIN rows => rows'[k] = rows[k]  BY <1>10, <2>2
        <3>. QED  BY <1>s, <3>1, <3>2, <3>3 DEF HasKey
    <2>. QED  BY <2>1, <2>2
<1>13. \A keys : Agree(Seen', Seen, keys)  BY <1>12 DEF Agree
<1>. QED  BY <1>6, <1>7, <1>9, <1>11, <1>13

LEMMA AgreeOn ==
    ASSUME NEW one, NEW two, NEW three, NEW keys, Agree(one, two, keys), Agree(two, three, keys)
    PROVE  Agree(one, three, keys)
BY DEF Agree

\* A change while the reader reads: what it will have seen is the configuration
\* after the change when it has not come by the key, and as before otherwise.
LEMMA ChangeIsSeen ==
    ASSUME NEW key, Alters(key), NEW keys, UNCHANGED <<lookups, rows>>,
           Agree(Seen, config, keys)
    PROVE  Agree(Seen', config', keys) \/ Agree(Seen', Seen, keys)
<1>1. Ahead' = Ahead  BY DEF Ahead
<1>2. /\ DOMAIN Seen = (DOMAIN rows \ Ahead) \union (DOMAIN config \cap Ahead)
      /\ \A k \in DOMAIN Seen : Seen[k] = IF k \in Ahead THEN config[k] ELSE rows[k]
      /\ DOMAIN Seen' = (DOMAIN rows \ Ahead) \union (DOMAIN config' \cap Ahead)
      /\ \A k \in DOMAIN Seen' : Seen'[k] = IF k \in Ahead THEN config'[k] ELSE rows[k]
    BY <1>1 DEF Seen
<1>3. \A k : k # key => /\ k \in DOMAIN config' <=> k \in DOMAIN config
                        /\ k \in DOMAIN config => config'[k] = config[k]
    BY DEF Alters, HasKey
<1>4. \A k \in keys : /\ k \in DOMAIN Seen <=> k \in DOMAIN config
                      /\ k \in DOMAIN config => Seen[k].value = config[k].value
    BY DEF Agree, HasKey
<1>5. CASE key \in Ahead
    <2>1. ASSUME NEW k \in keys
          PROVE  /\ HasKey(Seen', k) <=> HasKey(config', k)
                 /\ HasKey(config', k) => Seen'[k].value = config'[k].value
        <3>1. CASE k \in Ahead  BY <1>2, <3>1 DEF HasKey
        <3>2. CASE k \notin Ahead
            <4>1. k # key  BY <1>5, <3>2
            <4>. QED  BY <1>2, <1>3, <1>4, <3>2, <4>1 DEF HasKey
        <3>. QED  BY <3>1, <3>2
    <2>. QED  BY <2>1 DEF Agree
<1>6. CASE key \notin Ahead
    <2>1. ASSUME NEW k
          PROVE  /\ HasKey(Seen', k) <=> HasKey(Seen, k)
                 /\ HasKey(Seen, k) => Seen'[k].value = Seen[k].value
        <3>1. CASE k \in Ahead
            <4>1. k # key  BY <1>6, <3>1
            <4>. QED  BY <1>2, <1>3, <3>1, <4>1 DEF HasKey
        <3>2. CASE k \notin Ahead  BY <1>2, <3>2 DEF HasKey
        <3>. QED  BY <3>1, <3>2
    <2>. QED  BY <2>1 DEF Agree
<1>. QED  BY <1>5, <1>6

\* A reader that starts has every key of the settings before it.
LEMMA StartSees ==
    ASSUME DeployInv, ReaderOK, StartReader("read")
    PROVE  SeenOK'
<1>1. /\ lookups' = read_main /\ rows' = rows /\ config' = config /\ state' = "reading"
      /\ inForce' = [s \in Settings |-> {Effective(config, s)}]
    <2>1. Program["read"] = read_main  BY DEF Program
    <2>. HIDE DEF Program
    <2>. QED  BY <2>1 DEF StartReader, deployVars, deployment
<1>2. DOMAIN rows = {}  BY DEF StartReader, ReaderOK, EmptyConfig
<1>3. PICK keys : Gets(lookups', keys) /\ \A s \in Settings : KeysOf(s) \subseteq keys
    BY <1>1, ReadMainGets
<1>4. /\ \A i, j \in DOMAIN lookups' : lookups'[i].key = lookups'[j].key => i = j
      /\ \A i \in DOMAIN lookups' : lookups'[i].call = "get"
      /\ Ahead' = keys
    BY <1>3 DEF Gets, Ahead
<1>5. /\ DOMAIN Seen' = DOMAIN config \cap keys
      /\ \A k \in DOMAIN Seen' : Seen'[k] = config[k]
    BY <1>1, <1>2, <1>4 DEF Seen
<1>6. ASSUME NEW s \in Settings PROVE Agree(Seen', config, KeysOf(s))
    BY <1>3, <1>5 DEF Agree, HasKey
<1>7. ASSUME NEW s \in Settings
      PROVE  /\ Effective(config, s) \in inForce'[s]
             /\ Effective(Seen', s) \in inForce'[s]
    <2>1. Effective(Seen', s) = Effective(config, s)  BY <1>6, SameInForce
    <2>. QED  BY <1>1, <2>1
<1>. QED  BY <1>1, <1>2, <1>4, <1>6, <1>7 DEF SeenOK

LEMMA SeenSteps ==
    ASSUME DeployInv, ReaderOK, LookupsOK, RowsOK, SeenOK, ReadersNext
    PROVE  SeenOK'
<1>1. CASE Deploys
    <2>1. CASE state = "idle"  BY <1>1, <2>1 DEF Deploys, reading, SeenOK
    <2>2. CASE state # "idle"  BY <1>1, <2>2, DeploysSame, SameReader
    <2>. QED  BY <2>1, <2>2
<1>2. CASE GovernanceChanges
    <2>1. PICK conf, key : Changes(conf, key) /\ Alters(key)  BY <1>2, ChangeIs
    <2>2. config' = conf /\ UNCHANGED <<reader, state, lookups, rows>>
        BY <2>1 DEF Changes, reading
    <2>3. CASE reader = "read" /\ state = "reading"
        <3>1. /\ inForce' = [s \in Settings |-> inForce[s] \union {Effective(config', s)}]
              /\ changedSince' = changedSince + 1 /\ changedSince \in Nat
            <4>1. changedSince \in 0..changes /\ changes \in 0..MaxChanges  BY DEF ReaderOK
            <4>. QED  BY <2>1, <2>2, <2>3, <4>1, ReadersAssumption DEF Changes
        <3>2. Ahead' = Ahead  BY <2>2 DEF Ahead
        <3>3. ASSUME NEW s \in Settings, changedSince' <= 1
              PROVE  Effective(Seen', s) \in inForce'[s]
            <4>1. changedSince = 0  BY <3>1, <3>3
            <4>2. Agree(Seen, config, KeysOf(s)) /\ Effective(Seen, s) \in inForce[s]
                BY <2>3, <4>1 DEF SeenOK
            <4>3. \/ Agree(Seen', config', KeysOf(s))
                  \/ Agree(Seen', Seen, KeysOf(s))
                BY <2>1, <2>2, <4>2, ChangeIsSeen
            <4>4. \/ Effective(Seen', s) = Effective(config', s)
                  \/ Effective(Seen', s) = Effective(Seen, s)
                BY <4>3, SameInForce
            <4>. QED  BY <3>1, <4>2, <4>4
        <3>4. changedSince' # 0  BY <3>1
        <3>5. \A s \in Settings : Effective(config', s) \in inForce'[s]  BY <3>1
        <3>. QED  BY <2>2, <2>3, <3>2, <3>3, <3>4, <3>5 DEF SeenOK
    <2>4. CASE reader = "read" /\ state # "reading"
        <3>1. UNCHANGED <<inForce, changedSince>>  BY <2>1, <2>4 DEF Changes, readHistory
        <3>2. CASE state = "over"
            <4>1. IsSequence(<<>>)  BY Singles
            <4>2. lookups = <<>> /\ DOMAIN lookups = {}
                <5>. DEFINE e == <<>>
                <5>1. IsSequence(e) /\ Len(e) = 0 /\ lookups = e  BY <3>2, <4>1 DEF ReaderOK
                <5>. HIDE DEF e
                <5>2. DOMAIN e = {}  BY <5>1, LengthOf
                <5>. QED  BY <5>1, <5>2 DEF e
            <4>3. Ahead = {} /\ Ahead' = {}  BY <2>2, <4>2 DEF Ahead
            <4>4. Seen' = Seen  BY <2>2, <4>3 DEF Seen
            <4>. QED  BY <2>2, <2>4, <3>1, <4>4 DEF SeenOK
        <3>3. CASE state # "over"  BY <2>2, <2>4, <3>3 DEF SeenOK
        <3>. QED  BY <3>2, <3>3
    <2>5. CASE reader # "read"  BY <2>2, <2>5 DEF SeenOK
    <2>. QED  BY <2>3, <2>4, <2>5
<1>3. ASSUME NEW script \in DOMAIN Program, StartReader(script) PROVE SeenOK'
    <2>1. CASE script = "read"
        <3>1. StartReader("read")  BY <1>3, <2>1
        <3>. QED  BY <3>1, StartSees
    <2>2. CASE script # "read"  BY <1>3, <2>2 DEF StartReader, SeenOK
    <2>. QED  BY <2>1, <2>2
<1>4. CASE ReadsOn
    <2>1. /\ state = "reading" /\ state' = "reading" /\ lookups # <<>>
          /\ UNCHANGED <<config, reader, inForce, changedSince>>
        BY <1>4, ReadsFrame
    <2>2. CASE reader = "read"
        <3>1. /\ lookups' = Tail(lookups) /\ Ahead' \subseteq Ahead
              /\ \A i \in DOMAIN lookups' : /\ i + 1 \in DOMAIN lookups
                                            /\ lookups'[i] = lookups[i + 1]
              /\ Ahead' \cap DOMAIN rows' = {}
              /\ \A keys : Agree(Seen', Seen, keys)
            BY <1>4, <2>2, GetSeesTheSame
        <3>2. /\ \A i, j \in DOMAIN lookups : lookups[i].key = lookups[j].key => i = j
              /\ \A i \in DOMAIN lookups : lookups[i].call = "get"
              /\ \A s \in Settings : /\ Effective(config, s) \in inForce[s]
                                     /\ changedSince = 0 => Agree(Seen, config, KeysOf(s))
              /\ changedSince <= 1 => \A s \in Settings : Effective(Seen, s) \in inForce[s]
            BY <2>1, <2>2 DEF SeenOK
        <3>3. DOMAIN lookups' \subseteq Nat
            <4>1. IsSequence(lookups)  BY <2>1 DEF LookupsOK
            <4>2. IsSequence(lookups')  BY <2>1, <3>1, <4>1, TailOf
            <4>. QED  BY <4>2, LengthOf
        <3>4. \A i, j \in DOMAIN lookups' : lookups'[i].key = lookups'[j].key => i = j
            BY <3>1, <3>2, <3>3
        <3>5. \A i \in DOMAIN lookups' : lookups'[i].call = "get"  BY <3>1, <3>2
        <3>6. ASSUME NEW s \in Settings
              PROVE  /\ changedSince = 0 => Agree(Seen', config, KeysOf(s))
                     /\ Effective(Seen', s) = Effective(Seen, s)
            BY <3>1, <3>2, AgreeOn, SameInForce
        <3>. QED  BY <2>1, <2>2, <3>1, <3>2, <3>4, <3>5, <3>6 DEF SeenOK
    <2>3. CASE reader # "read"  BY <2>1, <2>3 DEF SeenOK
    <2>. QED  BY <2>2, <2>3
<1>5. CASE ReaderDies  BY <1>5 DEF ReaderDies, SeenOK
<1>6. CASE ReaderEnds
    <2>1. /\ state = "reading" /\ state' = "over"
          /\ UNCHANGED <<config, reader, lookups, rows, inForce, changedSince>>
        BY <1>6 DEF ReaderEnds, deployVars, deployment, readHistory
    <2>2. Seen' = Seen  BY <2>1 DEF Seen, Ahead
    <2>. QED  BY <2>1, <2>2 DEF SeenOK
<1>. QED  BY <1>1, <1>2, <1>3, <1>4, <1>5, <1>6, ReadersStep

LEMMA ReadersInvInit == ReadersInit => ReadersInv
<1>. SUFFICES ASSUME ReadersInit PROVE ReadersInv  OBVIOUS
<1>1. DeployInv  BY DeployInvInit DEF ReadersInit
<1>2. /\ reader = "none" /\ state = "idle" /\ rows = EmptyConfig
      /\ changes = 0 /\ changedSince = 0 /\ unsetSince = {}
    BY DEF ReadersInit
<1>3. ReaderOK  BY <1>2, ReadersAssumption DEF ReaderOK
<1>4. LookupsOK /\ SeenOK /\ DiesOnlyOf  BY <1>2 DEF LookupsOK, SeenOK, DiesOnlyOf
<1>5. RowsOK  BY <1>2 DEF RowsOK, EmptyConfig
<1>. QED  BY <1>1, <1>3, <1>4, <1>5 DEF ReadersInv

LEMMA ReadersInvStep == ReadersInv /\ [ReadersNext]_readVars => ReadersInv'
<1>. SUFFICES ASSUME ReadersInv, [ReadersNext]_readVars PROVE ReadersInv'  OBVIOUS
<1>i. DeployInv /\ ReaderOK /\ LookupsOK /\ RowsOK /\ SeenOK /\ DiesOnlyOf
    BY DEF ReadersInv
<1>1. CASE ReadersNext
    BY <1>1, <1>i, DeploymentOfReaders, ReaderSteps, LookupSteps, RowSteps, SeenSteps, DeathSteps
    DEF ReadersInv
<1>2. CASE UNCHANGED readVars
    <2>1. UNCHANGED <<deployVars, config, reader, state, lookups, rows, changes, inForce,
                      changedSince, unsetSince>>
        BY <1>2 DEF readVars, reading, readHistory, deployVars, deployment
    <2>2. DeployInv'  BY <1>i, <2>1, DeploymentStays
    <2>3. ReaderOK'
        <3>1. DOMAIN (Program') = DOMAIN Program  BY DEF Program
        <3>2. next' = next /\ (Settled' <=> Settled)
            BY <2>1 DEF deployVars, Settled, plan, limits
        <3>. QED  BY <1>i, <2>1, <3>1, <3>2 DEF ReaderOK
    <2>. QED  BY <1>i, <2>1, <2>2, <2>3, SameReader DEF ReadersInv
<1>. QED  BY <1>1, <1>2

\* Whatever the plan, and wherever scripts died: the operator, the chain, the
\* configuration and the readers are always as described above.
THEOREM ReadersInvHolds == ReadersSpec => []ReadersInv
<1>1. ReadersInit => ReadersInv  BY ReadersInvInit
<1>2. ReadersInv /\ [ReadersNext]_readVars => ReadersInv'  BY ReadersInvStep
<1>. QED  BY <1>1, <1>2, PTL DEF ReadersSpec

-----------------------------------------------------------------------------
(* What follows.                                                           *)

LEMMA EmptyDomain == DOMAIN <<>> = {}
<1>. DEFINE e == <<>>
<1>1. IsSequence(e) /\ Len(e) = 0  BY Singles
<1>. HIDE DEF e
<1>2. DOMAIN e = {}  BY <1>1, LengthOf
<1>. QED  BY <1>2 DEF e

LEMMA ReadersTyped == ReadersInv => ReadersTypeOK
<1>. SUFFICES ASSUME ReadersInv PROVE ReadersTypeOK  OBVIOUS
<1>i. DeployInv /\ ReaderOK /\ RowsOK  BY DEF ReadersInv
<1>t. \A k, t : KeyTyped(k, t) => t \in Types  BY DEF KeyTyped, Types
<1>1. ASSUME NEW i \in DOMAIN todo
      PROVE  todo[i].op \in {"deploy", "proxy", "overwrite", "setKey", "call", "asset",
                             "transfer", "print", "raise"}
    <2>1. running  BY <1>1, <1>i, EmptyDomain DEF DeployInv, TodoOK
    <2>. QED  BY <1>1, <1>i, <2>1 DEF DeployInv, TodoOK, StepOf
<1>2. \A k \in DOMAIN config : config[k].type \in Types
    BY <1>i, <1>t DEF DeployInv, ConfigOK
<1>3. \A c \in Contracts : \A i \in DOMAIN containers[c] : containers[c][i] \in DOMAIN chain
    BY <1>i DEF DeployInv, ContainersOK
<1>4. \A a \in DOMAIN registries : a.proxy /\ registries[a].stable \subseteq registries[a].addresses
    BY <1>i DEF DeployInv, RegistriesOK
<1>5. DeployTypeOK
    BY <1>i, <1>1, <1>2, <1>3, <1>4 DEF DeployInv, PlanOK, DeployTypeOK
<1>6. \A k \in DOMAIN rows : rows[k].type \in Types  BY <1>i, <1>t DEF RowsOK
<1>. QED  BY <1>i, <1>5, <1>6 DEF ReaderOK, ReadersTypeOK

\* What the script prints is the narrowest of what it found.
LEMMA PrintsTheNarrowest ==
    ASSUME NEW s \in Settings
    PROVE  PrintedEffective(s) = Effective(rows, s)
<1>. DEFINE F == FoundAt(s)
            key(i) == mk_pool_setting(s, Scopes[i])
<1>1. /\ key(1) = s /\ key(2) = TypeKey[s] /\ key(3) = PoolKey[s]
      /\ DOMAIN Scopes = {1, 2, 3}
    <2>1. /\ DOMAIN Scopes = {1, 2, 3} /\ Scopes[1] = "global" /\ Scopes[2] = "type"
          /\ Scopes[3] = "pool"
        BY DEF Scopes
    <2>. QED  BY <2>1, KeysAre
<1>2. F = {i \in {1, 2, 3} : key(i) \in DOMAIN rows}  BY <1>1 DEF FoundAt
<1>3. PrintedEffective(s) = IF F = {} THEN NoAddress ELSE rows[key(Max(F))].value
    BY DEF PrintedEffective
<1>. HIDE DEF F, key
<1>4. Effective(rows, s) = IF key(3) \in DOMAIN rows THEN rows[key(3)].value
                           ELSE IF key(2) \in DOMAIN rows THEN rows[key(2)].value
                           ELSE IF key(1) \in DOMAIN rows THEN rows[key(1)].value
                           ELSE NoAddress
    BY <1>1, KeysAre DEF Effective, GetOr, HasKey
<1>5. CASE 3 \in F
    <2>1. Max(F) = 3  BY <1>2, <1>5 DEF Max
    <2>. QED  BY <1>2, <1>3, <1>4, <1>5, <2>1
<1>6. CASE 3 \notin F /\ 2 \in F
    <2>1. Max(F) = 2  BY <1>2, <1>6 DEF Max
    <2>. QED  BY <1>2, <1>3, <1>4, <1>6, <2>1
<1>7. CASE 3 \notin F /\ 2 \notin F /\ 1 \in F
    <2>1. Max(F) = 1  BY <1>2, <1>7 DEF Max
    <2>. QED  BY <1>2, <1>3, <1>4, <1>7, <2>1
<1>8. CASE F = {}  BY <1>2, <1>3, <1>4, <1>8
<1>. QED  BY <1>2, <1>5, <1>6, <1>7, <1>8

LEMMA InForce == ReadersInv => EffectiveInForce
<1>. SUFFICES ASSUME ReadersInv, reader = "read", state = "over", changedSince <= 1,
                     NEW s \in Settings
              PROVE  PrintedEffective(s) \in inForce[s]
    BY DEF EffectiveInForce
<1>i. ReaderOK /\ SeenOK  BY DEF ReadersInv
<1>1. lookups = <<>>  BY <1>i DEF ReaderOK
<1>2. Ahead = {}  BY <1>1, EmptyDomain DEF Ahead
<1>3. /\ DOMAIN Seen = DOMAIN rows
      /\ \A k \in DOMAIN rows : Seen[k] = rows[k]
    BY <1>2 DEF Seen
<1>4. Agree(Seen, rows, KeysOf(s))  BY <1>3 DEF Agree, HasKey
<1>5. Effective(Seen, s) = PrintedEffective(s)  BY <1>4, SameInForce, PrintsTheNarrowest
<1>. QED  BY <1>i, <1>5 DEF SeenOK

LEMMA FrozenRows == ReadersInv => FrozenRowsHold
<1>. SUFFICES ASSUME ReadersInv, state = "over", NEW k \in DOMAIN rows, rows[k].frozen
              PROVE  HasKey(config, k) /\ config[k].value = rows[k].value
    BY DEF FrozenRowsHold
<1>1. lookups = <<>>  BY DEF ReadersInv, ReaderOK
<1>. QED  BY <1>1 DEF ReadersInv, RowsOK

\* The deployment without the readers.
THEOREM DeployInvHolds == DeploySpec => []DeployInv
<1>1. DeployInv /\ [DeployNext]_deployVars => DeployInv'  BY DeployInvStep, DeploymentStays
<1>. QED  BY <1>1, DeployInvInit, PTL DEF DeploySpec

\* Types, for any plan of the scripts: a key has the type of its name, a container
\* lists deployed addresses, a registry is behind a proxy.
THEOREM TypeCorrect == ReadersSpec => []ReadersTypeOK
BY ReadersInvHolds, ReadersTyped, PTL

\* as_singleton skips no script that has work to do: the contract it finds was
\* deployed by the script it skips, which therefore ran before, even when it died or
\* reverted then (utils.py, as_singleton).
THEOREM NothingIsLeftOut == ReadersSpec => []NothingLeftOut
<1>1. ReadersInv => NothingLeftOut  BY DEF ReadersInv, DeployInv
<1>. QED  BY <1>1, ReadersInvHolds, PTL

\* What read_gyroconfig_pool_params prints as EFFECTIVE was in force while it read,
\* when governance made no more than one change meanwhile.
THEOREM PrintedWasInForce == ReadersSpec => []EffectiveInForce
BY ReadersInvHolds, InForce, PTL

\* A row that a reader prints as frozen is what the configuration says for good:
\* getConfigMeta is called before the getter, and a frozen key never changes.
THEOREM FrozenRowsAreTrue == ReadersSpec => []FrozenRowsHold
BY ReadersInvHolds, FrozenRows, PTL

\* A reader dies of nothing but a key that governance unset under it, or, the check
\* of the keys, of the two treasuries.
THEOREM DeathsAreKnown == ReadersSpec => []DiesOnlyOf
<1>1. ReadersInv => DiesOnlyOf  BY DEF ReadersInv
<1>. QED  BY <1>1, ReadersInvHolds, PTL

=============================================================================
