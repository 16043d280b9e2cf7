----------------------------- MODULE PartsProofs -----------------------------
(***************************************************************************)
(* The components side by side (Parts): the inductive invariant of each,   *)
(* and that the composition keeps what each of them promises.              *)
(***************************************************************************)
EXTENDS Parts, FiniteSetTheorems, TLAPS

(* The operators of a library module, seen through an instance.            *)
LEMMA SameOperators ==
  ASSUME NEW S
  PROVE  /\ RL!IsFiniteSet(S) = IsFiniteSet(S) /\ RL!Cardinality(S) = Cardinality(S)
         /\ ML!IsFiniteSet(S) = IsFiniteSet(S) /\ ML!Cardinality(S) = Cardinality(S)
<1>1. RL!IsFiniteSet(S) = IsFiniteSet(S)
  BY DEF RL!IsFiniteSet, IsFiniteSet
<1>2. RL!Cardinality(S) = Cardinality(S)
  BY DEF RL!Cardinality, Cardinality
<1>3. ML!IsFiniteSet(S) = IsFiniteSet(S)
  BY DEF ML!IsFiniteSet, IsFiniteSet
<1>4. ML!Cardinality(S) = Cardinality(S)
  BY DEF ML!Cardinality, Cardinality
<1> QED
  BY <1>1, <1>2, <1>3, <1>4

-----------------------------------------------------------------------------
(***************************************************************************)
(* The saved strategies (StrategyVersions): a save replaces what its author saw. *)
(***************************************************************************)

SaveNumber == 1 .. MaxSaves
EditRows == [user : {UserOf[c] : c \in Clients}, version : Nat \ {0}, definition : SaveNumber, replaced : Nat]
EditCopies == [id : Strategies, version : Nat \ {0}, definition : SaveNumber]

EditTypes ==
    /\ strategy \in [Strategies -> {SV!None} \cup EditRows]
    /\ loaded \in [Clients -> {SV!None} \cup EditCopies]
    /\ saving \in [Clients -> {SV!None} \cup EditCopies]
    /\ saves \in 0 .. MaxSaves
    /\ builtOn \in [SaveNumber -> Nat]

(* Versions grow, so a copy with the version of the row is a copy of it.   *)
LoadedIsOlder(c) ==
    loaded[c] # SV!None =>
        LET stored == strategy[loaded[c].id]
        IN  /\ stored # SV!None /\ loaded[c].version <= stored.version
            /\ loaded[c].version = stored.version => loaded[c].definition = stored.definition

(* What would be saved under the row's own version was built on the row.   *)
SavingIsOlder(c) ==
    saving[c] # SV!None =>
        LET stored == strategy[saving[c].id]
        IN  /\ stored # SV!None /\ saving[c].version <= stored.version
            /\ stored.user = UserOf[c] /\ saving[c].version = stored.version =>
                  builtOn[saving[c].definition] = stored.definition

(* builtOn is written for new numbers only.                                *)
NumbersAreUsed ==
    /\ \A s \in Strategies : strategy[s] # SV!None => strategy[s].definition <= saves
    /\ \A c \in Clients : saving[c] # SV!None => saving[c].definition <= saves

EditInv ==
    /\ EditTypes /\ NumbersAreUsed /\ SV!NoSaveLost
    /\ \A c \in Clients : LoadedIsOlder(c) /\ SavingIsOlder(c)

LEMMA EditStart == ASSUME MaxSaves \in Nat, SV!Init PROVE EditInv
  BY DEF SV!Init, EditInv, EditTypes, NumbersAreUsed, SV!NoSaveLost, LoadedIsOlder, SavingIsOlder, SV!None, SaveNumber

LEMMA LoadKeepsEdits ==
  ASSUME MaxSaves \in Nat, EditInv, NEW c \in Clients, NEW s \in Strategies, SV!LoadStrategy(c, s)
  PROVE EditInv'
<1> USE DEF SV!LoadStrategy, EditInv, SaveNumber
<1>1. EditTypes'
  BY DEF EditTypes, EditRows, EditCopies, SV!None
<1>2. NumbersAreUsed' /\ SV!NoSaveLost'
  BY DEF NumbersAreUsed, SV!NoSaveLost
<1>3. \A d \in Clients : LoadedIsOlder(d)'
  BY DEF EditTypes, EditRows, LoadedIsOlder, SV!None
<1>4. \A d \in Clients : SavingIsOlder(d)'
  BY DEF SavingIsOlder
<1> QED
  BY <1>1, <1>2, <1>3, <1>4

LEMMA CreateKeepsEdits ==
  ASSUME MaxSaves \in Nat, EditInv, NEW c \in Clients, NEW s \in Strategies, SV!CreateStrategy(c, s)
  PROVE EditInv'
<1> USE DEF SV!CreateStrategy, EditInv, SaveNumber, SV!Row
<1>1. EditTypes'
  BY DEF EditTypes, EditRows, EditCopies, SV!None
<1>2. NumbersAreUsed'
  BY DEF EditTypes, NumbersAreUsed, EditRows, EditCopies
<1>3. SV!NoSaveLost'
  BY DEF EditTypes, SV!NoSaveLost
<1>4. \A d \in Clients : LoadedIsOlder(d)'
  BY DEF EditTypes, EditRows, EditCopies, LoadedIsOlder, SV!None
<1>5. \A d \in Clients : SavingIsOlder(d)'
  BY DEF EditTypes, EditRows, EditCopies, SavingIsOlder
<1> QED
  BY <1>1, <1>2, <1>3, <1>4, <1>5

LEMMA AskKeepsEdits ==
  ASSUME MaxSaves \in Nat, EditInv, NEW c \in Clients, NEW s \in Strategies, SV!AskToSave(c, s)
  PROVE EditInv'
<1> USE DEF SV!AskToSave, EditInv, SaveNumber
<1>0. PICK v \in Nat \ {0} :
        /\ saves' = saves + 1 /\ saves' \in SaveNumber
        /\ saving' = [saving EXCEPT ![c] = [id |-> s, version |-> v, definition |-> saves']]
        /\ builtOn' = builtOn \/ \E n \in Nat : builtOn' = [builtOn EXCEPT ![saves'] = n]
        /\ strategy' = strategy /\ loaded' = loaded
  <2>1. saves' = saves + 1 /\ saves' \in SaveNumber /\ strategy' = strategy /\ loaded' = loaded
    BY DEF EditTypes
  <2>2. CASE /\ loaded[c] # SV!None
             /\ saving' = [saving EXCEPT ![c] = [id |-> s, version |-> loaded[c].version, definition |-> saves']]
             /\ builtOn' = [builtOn EXCEPT ![saves'] = loaded[c].definition]
    <3>1. loaded[c].version \in Nat \ {0} /\ loaded[c].definition \in Nat
      BY <2>2 DEF EditTypes, EditCopies
    <3>2. \E n \in Nat : builtOn' = [builtOn EXCEPT ![saves'] = n]
      BY <2>2, <3>1, Zenon
    <3> QED
      BY <2>1, <2>2, <3>1, <3>2, Zenon
  <2>3. CASE /\ strategy[s] # SV!None
             /\ saving' = [saving EXCEPT ![c] = [id |-> s, version |-> strategy[s].version, definition |-> saves']]
             /\ builtOn' = builtOn
    BY <2>1, <2>3 DEF EditTypes, EditRows, EditCopies, SV!None
  <2> QED
    BY <2>2, <2>3
<1>1. EditTypes'
  BY <1>0 DEF EditTypes, EditCopies
<1>2. NumbersAreUsed'
  <2>1. \A d \in Clients : d # c => saving'[d] = saving[d]
    BY <1>0 DEF EditTypes
  <2>2. saving'[c].definition = saves'
    BY <1>0 DEF EditTypes
  <2>3. ASSUME NEW d \in Clients, saving'[d] # SV!None PROVE saving'[d].definition <= saves'
    BY <1>0, <2>1, <2>2, <2>3 DEF EditTypes, NumbersAreUsed, EditCopies
  <2> QED
    BY <1>0, <2>3 DEF EditTypes, EditRows, NumbersAreUsed
<1>3. \A n \in 1 .. saves : builtOn'[n] = builtOn[n]
  BY DEF EditTypes
<1>4. SV!NoSaveLost'
  BY <1>3 DEF EditTypes, EditRows, SV!NoSaveLost, NumbersAreUsed, SV!None
<1>5. \A d \in Clients : LoadedIsOlder(d)'
  BY DEF LoadedIsOlder
<1>6. ASSUME NEW d \in Clients PROVE SavingIsOlder(d)'
  <2>1. CASE d = c
    BY <2>1 DEF EditTypes, EditRows, EditCopies, LoadedIsOlder, SavingIsOlder, SV!None
  <2>2. CASE d # c
    BY <2>2, <1>3 DEF EditTypes, EditCopies, SavingIsOlder, NumbersAreUsed
  <2> QED
    BY <2>1, <2>2
<1> QED
  BY <1>1, <1>2, <1>4, <1>5, <1>6

LEMMA SaveKeepsEdits ==
  ASSUME MaxSaves \in Nat, EditInv, NEW c \in Clients, SV!SaveStrategy(c)
  PROVE EditInv'
<1> DEFINE p == saving[c]
           old == strategy[p.id]
           found == old.user = UserOf[c] /\ old.version = p.version
<1>1. /\ p \in EditCopies /\ old \in EditRows
      /\ saves' = saves /\ builtOn' = builtOn
      /\ saving' = saving \/ saving' = [saving EXCEPT ![c] = SV!None]
  <2>1. p \in EditCopies /\ old \in EditRows
    BY DEF SV!SaveStrategy, EditInv, EditTypes, SavingIsOlder, EditCopies
  <2>2. saves' = saves /\ builtOn' = builtOn
    BY Zenon DEF SV!SaveStrategy, SV!Update
  <2>3. saving' = saving \/ saving' = [saving EXCEPT ![c] = SV!None]
    BY Zenon DEF SV!SaveStrategy, SV!Update
  <2> QED
    BY <2>1, <2>2, <2>3
<1>2. CASE ~found
  <2>1. strategy' = strategy /\ loaded' = loaded
    <3>1. /\ strategy' = strategy
          /\ loaded' = loaded \/ loaded' = [loaded EXCEPT ![c] = @]
      BY <1>2 DEF SV!SaveStrategy, SV!Update
    <3> QED
      BY <3>1 DEF EditInv, EditTypes
  <2> QED
    BY <1>1, <2>1 DEF EditInv, EditTypes, NumbersAreUsed, SV!NoSaveLost, LoadedIsOlder, SavingIsOlder, SV!None
<1>3. CASE found
  <2> DEFINE new == [user |-> old.user, version |-> p.version + 1, definition |-> p.definition,
                     replaced |-> old.definition]
             copy == [id |-> p.id, version |-> p.version + 1, definition |-> p.definition]
  <2>1. /\ strategy' = [strategy EXCEPT ![p.id] = new]
        /\ loaded' = loaded \/ loaded' = [loaded EXCEPT ![c] = copy]
    <3>1. [p EXCEPT !.version = @ + 1] = copy
      BY <1>1 DEF EditCopies
    <3> QED
      BY <1>3, <3>1 DEF SV!SaveStrategy, SV!Update, SV!Row
  <2>2. /\ new \in EditRows /\ copy \in EditCopies /\ new # SV!None /\ copy # SV!None
        /\ p.id \in Strategies
        /\ p.definition \in 1 .. saves
        /\ builtOn[p.definition] = old.definition
    <3>1. saving[c] # SV!None /\ p.definition \in Nat \ {0} /\ p.definition <= saves
      BY <1>1 DEF SV!SaveStrategy, EditInv, NumbersAreUsed, EditCopies, SaveNumber
    <3>2. builtOn[p.definition] = old.definition
      BY <1>3, <3>1 DEF EditInv, SavingIsOlder
    <3>3. new \in EditRows /\ copy \in EditCopies /\ p.id \in Strategies /\ p.definition \in 1 .. saves
      BY <1>1, <3>1 DEF EditInv, EditTypes, EditRows, EditCopies, SaveNumber
    <3>4. new # SV!None /\ copy # SV!None
      BY <1>1 DEF EditCopies, SV!None
    <3> QED
      BY <3>2, <3>3, <3>4
  <2>3. /\ strategy'[p.id] = new
        /\ \A s \in Strategies : s # p.id => strategy'[s] = strategy[s]
    BY <2>1, <2>2 DEF EditInv, EditTypes
  <2>4. /\ loaded'[c] \in {loaded[c], copy}
        /\ \A d \in Clients : d # c => loaded'[d] = loaded[d]
    BY <2>1 DEF EditInv, EditTypes
  <2>5. \A d \in Clients : saving'[d] \in {saving[d], SV!None}
    BY <1>1 DEF EditInv, EditTypes
  <2>6. EditTypes'
    BY <1>1, <2>1, <2>2 DEF EditInv, EditTypes
  <2>7. NumbersAreUsed' /\ SV!NoSaveLost'
    BY <1>1, <2>2, <2>3, <2>5 DEF EditInv, EditTypes, NumbersAreUsed, SV!NoSaveLost
  <2>8. ASSUME NEW d \in Clients PROVE LoadedIsOlder(d)'
    <3>1. CASE loaded'[d] = loaded[d]
      BY <1>1, <1>3, <2>2, <2>3, <3>1 DEF EditInv, EditTypes, LoadedIsOlder, EditRows, EditCopies
    <3>2. CASE loaded'[d] = copy
      BY <1>1, <2>2, <2>3, <3>2 DEF LoadedIsOlder, EditCopies
    <3> QED
      BY <2>4, <3>1, <3>2
  <2>9. ASSUME NEW d \in Clients PROVE SavingIsOlder(d)'
    <3>1. CASE saving'[d] = SV!None
      BY <3>1 DEF SavingIsOlder
    <3>2. CASE saving'[d] = saving[d]
      BY <1>1, <1>3, <2>2, <2>3, <3>2 DEF EditInv, EditTypes, SavingIsOlder, EditRows, EditCopies
    <3> QED
      BY <2>5, <3>1, <3>2
  <2> QED
    BY <2>6, <2>7, <2>8, <2>9 DEF EditInv
<1> QED
  BY <1>2, <1>3

(* The version of a row is at most the number of the save that it holds:   *)
(* a save that will be taken was asked for after the version it replaces.  *)
VersionsCounted ==
    /\ \A s \in Strategies : strategy[s] # SV!None => strategy[s].version <= strategy[s].definition
    /\ \A c \in Clients : saving[c] # SV!None => saving[c].version < saving[c].definition

LEMMA VersionsStay ==
  ASSUME MaxSaves \in Nat, EditInv, VersionsCounted, [SV!Next]_SV!strategyVars
  PROVE  VersionsCounted'
<1> USE DEF EditInv
<1>1. ASSUME NEW c \in Clients, NEW s \in Strategies, SV!LoadStrategy(c, s) PROVE VersionsCounted'
  BY <1>1 DEF SV!LoadStrategy, VersionsCounted
<1>2. ASSUME NEW c \in Clients, NEW s \in Strategies, SV!CreateStrategy(c, s) PROVE VersionsCounted'
  <2>1. /\ strategy' = [strategy EXCEPT ![s] = SV!Row(UserOf[c], 1, saves', 0)] /\ saving' = saving
        /\ saves' = saves + 1 /\ saves \in Nat
    BY <1>2 DEF SV!CreateStrategy, EditTypes
  <2>2. SV!Row(UserOf[c], 1, saves', 0).version = 1 /\ SV!Row(UserOf[c], 1, saves', 0).definition = saves'
    BY DEF SV!Row
  <2>3. \A t \in Strategies : strategy'[t] = IF t = s THEN SV!Row(UserOf[c], 1, saves', 0) ELSE strategy[t]
    BY <2>1 DEF EditTypes
  <2> HIDE DEF EditInv
  <2> QED
    BY <2>1, <2>2, <2>3 DEF VersionsCounted
<1>3. ASSUME NEW c \in Clients, NEW s \in Strategies, SV!AskToSave(c, s) PROVE VersionsCounted'
  <2>1. strategy' = strategy /\ saves' = saves + 1 /\ saves \in Nat
    BY <1>3 DEF SV!AskToSave, EditTypes
  <2>2. \A t \in Strategies : strategy[t] # SV!None =>
           /\ strategy[t].version \in Nat /\ strategy[t].definition \in Nat
           /\ strategy[t].version <= strategy[t].definition /\ strategy[t].definition <= saves
    BY DEF EditTypes, EditRows, SaveNumber, NumbersAreUsed, VersionsCounted
  <2>3. PICK v : saving' = [saving EXCEPT ![c] = [id |-> s, version |-> v, definition |-> saves']]
                 /\ v \in Nat /\ v <= saves
    <3>1. CASE /\ loaded[c] # SV!None /\ s = loaded[c].id
               /\ saving' = [saving EXCEPT ![c] = [id |-> s, version |-> loaded[c].version, definition |-> saves']]
      <4>1. loaded[c].version \in Nat /\ strategy[s] # SV!None /\ loaded[c].version <= strategy[s].version
        BY <3>1 DEF LoadedIsOlder, EditTypes, EditCopies
      <4>2. loaded[c].version <= saves
        BY <2>1, <2>2, <4>1
      <4> QED
        BY <3>1, <4>1, <4>2
    <3>2. CASE /\ strategy[s] # SV!None
               /\ saving' = [saving EXCEPT ![c] = [id |-> s, version |-> strategy[s].version, definition |-> saves']]
      <4>1. strategy[s].version \in Nat /\ strategy[s].version <= saves
        BY <2>1, <2>2, <3>2
      <4> QED
        BY <3>2, <4>1
    <3> QED
      BY <1>3, <3>1, <3>2 DEF SV!AskToSave
  <2>4. \A d \in Clients : saving'[d] = IF d = c THEN [id |-> s, version |-> v, definition |-> saves'] ELSE saving[d]
    BY <2>3 DEF EditTypes
  <2>5. v < saves'
    BY <2>1, <2>3
  <2> QED
    BY <2>1, <2>4, <2>5 DEF VersionsCounted
<1>4. ASSUME NEW c \in Clients, SV!SaveStrategy(c) PROVE VersionsCounted'
  <2> DEFINE p == saving[c]
             old == strategy[p.id]
             new == SV!Row(old.user, p.version + 1, p.definition, old.definition)
  <2>1. p \in EditCopies /\ p.version < p.definition
    BY <1>4 DEF SV!SaveStrategy, EditTypes, VersionsCounted
  <2>2. strategy' = strategy \/ strategy' = [strategy EXCEPT ![p.id] = new]
    BY <1>4 DEF SV!SaveStrategy, SV!Update
  <2>3. new.version = p.version + 1 /\ new.definition = p.definition
    BY DEF SV!Row
  <2>4. new.version <= new.definition
    BY <2>1, <2>3 DEF EditCopies, SaveNumber
  <2>5. \A t \in Strategies : strategy'[t] = strategy[t] \/ strategy'[t] = new
    BY <2>1, <2>2 DEF EditTypes, EditCopies
  <2>6. \A d \in Clients : saving'[d] = saving[d] \/ saving'[d] = SV!None
    BY <1>4 DEF SV!SaveStrategy, SV!Update, EditTypes
  <2> HIDE DEF p, old, new, EditInv
  <2> QED
    BY <2>4, <2>5, <2>6 DEF VersionsCounted
<1>5. CASE UNCHANGED SV!strategyVars
  BY <1>5 DEF SV!strategyVars, VersionsCounted
<1> QED
  BY <1>1, <1>2, <1>3, <1>4, <1>5 DEF SV!Next

(* No version is beyond the number of saves.                               *)
LEMMA VersionsTyped ==
  ASSUME MaxSaves \in Nat, EditInv, VersionsCounted
  PROVE  SV!TypeOK
<1>1. \A s \in Strategies : strategy[s].version \in 0 .. MaxSaves
  <2>1. \A s \in Strategies : strategy[s] # SV!None =>
           /\ strategy[s].version \in Nat /\ strategy[s].version <= strategy[s].definition
           /\ strategy[s].definition \in Nat /\ strategy[s].definition <= MaxSaves
    BY DEF EditInv, EditTypes, EditRows, SaveNumber, VersionsCounted
  <2>2. SV!None.version = 0
    BY DEF SV!None
  <2> QED
    BY <2>1, <2>2
<1>2. \A c \in Clients : loaded[c].version \in 0 .. MaxSaves
  <2>1. \A c \in Clients : loaded[c] # SV!None =>
           /\ loaded[c].id \in Strategies /\ loaded[c].version \in Nat
           /\ loaded[c].version <= strategy[loaded[c].id].version
    BY DEF EditInv, EditTypes, EditCopies, LoadedIsOlder
  <2>2. SV!None.version = 0
    BY DEF SV!None
  <2> QED
    BY <1>1, <2>1, <2>2
<1>3. \A c \in Clients : saving[c].version \in 0 .. MaxSaves
  <2>1. \A c \in Clients : saving[c] # SV!None =>
           /\ saving[c].version \in Nat /\ saving[c].version < saving[c].definition
           /\ saving[c].definition \in Nat /\ saving[c].definition <= MaxSaves
    BY DEF EditInv, EditTypes, EditCopies, SaveNumber, VersionsCounted
  <2>2. SV!None.version = 0
    BY DEF SV!None
  <2> QED
    BY <2>1, <2>2
<1> QED
  BY <1>1, <1>2, <1>3 DEF SV!TypeOK, EditInv, EditTypes

(* A save replaces only the definition its author had before his eyes,     *)
(* however many browsers edit and however often a save is sent again       *)
(* (custom_strategy.py:36-44).                                             *)
THEOREM NoEditLost == ASSUME MaxSaves \in Nat PROVE SV!Spec => [](SV!NoSaveLost /\ SV!TypeOK)
<1>1. SV!Init => EditInv
  BY EditStart
<1>2. EditInv /\ [SV!Next]_SV!strategyVars => EditInv'
  <2>1. ASSUME EditInv, SV!Next PROVE EditInv'
    BY <2>1, LoadKeepsEdits, CreateKeepsEdits, AskKeepsEdits, SaveKeepsEdits DEF SV!Next
  <2>2. ASSUME EditInv, UNCHANGED SV!strategyVars PROVE EditInv'
    BY <2>2 DEF EditInv, EditTypes, NumbersAreUsed, SV!NoSaveLost, LoadedIsOlder, SavingIsOlder, SV!strategyVars
  <2> QED
    BY <2>1, <2>2
<1>3. SV!Init => VersionsCounted
  BY DEF SV!Init, VersionsCounted
<1>4. EditInv /\ VersionsCounted /\ [SV!Next]_SV!strategyVars => VersionsCounted'
  BY VersionsStay
<1>5. EditInv /\ VersionsCounted => SV!NoSaveLost /\ SV!TypeOK
  BY VersionsTyped DEF EditInv
<1> QED
  BY <1>1, <1>2, <1>3, <1>4, <1>5, PTL DEF SV!Spec

-----------------------------------------------------------------------------
(***************************************************************************)
(* The backtest (Backtest): which model decides on the next order.         *)
(***************************************************************************)

Labels == [model : {"top_rise", "oscillation"}, tail : {"", "up", "down"}]
Entries == {BT!TopRise, BT!Oscillation}

TradeTypes == orderNames \in Seq(Labels)

(* A name with "up" or "down" is a sale of what the order before it bought *)
(* on an oscillation.                                                      *)
IsSale(name) == name.tail # ""
OnOscillation(name) == name.model = "oscillation"

Follows(names) ==
    \A n \in DOMAIN names :
        IsSale(names[n]) => OnOscillation(names[n]) /\ n > 1 /\ names[n - 1] = BT!Oscillation

SalesFollow == Follows(orderNames)

(* While an amount is held or on order, the last names tell who bought it. *)
BuyerIsRecent ==
    /\ order = "buy" => ~position /\ orderNames # <<>> /\ BT!Recent(1) \in Entries
    /\ order = "sell" => position /\ orderNames # <<>> /\ BT!Recent(1).model = heldBy.model
    /\ position /\ order = "none" => orderNames # <<>> /\ BT!Recent(1) \in Entries /\ heldBy = BT!Recent(1)

TradeInv == TradeTypes /\ SalesFollow /\ BuyerIsRecent

Up == BT!Name("oscillation", "up")
Down == BT!Name("oscillation", "down")

LEMMA NameParts ==
  /\ BT!TopRise.model = "top_rise" /\ BT!TopRise.tail = ""
  /\ BT!Oscillation.model = "oscillation" /\ BT!Oscillation.tail = ""
  /\ Up.model = "oscillation" /\ Up.tail = "up"
  /\ Down.model = "oscillation" /\ Down.tail = "down"
  /\ BT!None.model = "" /\ BT!None.tail = ""
  BY DEF BT!TopRise, BT!Oscillation, Up, Down, BT!None, BT!Name

LEMMA NameTypes == {BT!TopRise, BT!Oscillation, Up, Down} \subseteq Labels
<1>1. BT!TopRise \in Labels
  BY DEF BT!TopRise, BT!Name, Labels
<1>2. BT!Oscillation \in Labels
  BY DEF BT!Oscillation, BT!Name, Labels
<1>3. Up \in Labels
  BY DEF Up, BT!Name, Labels
<1>4. Down \in Labels
  BY DEF Down, BT!Name, Labels
<1> QED
  BY <1>1, <1>2, <1>3, <1>4

LEMMA LabelsDiffer ==
  \A n \in Labels : /\ n # BT!None /\ n.model \in {"top_rise", "oscillation"} /\ n.tail \in {"", "up", "down"}
                    /\ n.model = "oscillation" /\ n.tail = "" => n = BT!Oscillation
<1>1. \A n \in Labels : n.model \in {"top_rise", "oscillation"} /\ n.tail \in {"", "up", "down"}
  BY DEF Labels
<1>2. ASSUME NEW n \in Labels, n.model = "oscillation", n.tail = "" PROVE n = BT!Oscillation
  <2>1. n = [model |-> n.model, tail |-> n.tail]
    BY DEF Labels
  <2> QED
    BY <1>2, <2>1 DEF BT!Oscillation, BT!Name
<1> QED
  BY <1>1, <1>2, NameParts

LEMMA Appended ==
  ASSUME NEW S, NEW s \in Seq(S), NEW x \in S
  PROVE  /\ Append(s, x) \in Seq(S) /\ Append(s, x) # <<>>
         /\ Len(Append(s, x)) = Len(s) + 1 /\ Append(s, x)[Len(s) + 1] = x
         /\ \A n \in 1 .. Len(s) : Append(s, x)[n] = s[n]
  OBVIOUS

LEMMA Lengths ==
  ASSUME NEW S, NEW s \in Seq(S)
  PROVE  s = <<>> \/ Len(s) = 1 \/ Len(s) > 1
<1>1. Len(s) \in Nat
  OBVIOUS
<1>2. Len(s) = 0 => s = <<>>
  OBVIOUS
<1>3. \A k \in Nat : k = 0 \/ k = 1 \/ k > 1
  OBVIOUS
<1>4. Len(s) = 0 \/ Len(s) = 1 \/ Len(s) > 1
  BY <1>1, <1>3
<1> QED
  BY <1>2, <1>4, Zenon

LEMMA FollowsAppended ==
  ASSUME NEW names \in Seq(Labels), Follows(names), NEW x \in Labels,
         IsSale(x) => OnOscillation(x) /\ names # <<>> /\ names[Len(names)] = BT!Oscillation
  PROVE  Follows(Append(names, x))
<1> SUFFICES ASSUME NEW n \in DOMAIN Append(names, x), IsSale(Append(names, x)[n])
             PROVE  /\ OnOscillation(Append(names, x)[n])
                    /\ n > 1 /\ Append(names, x)[n - 1] = BT!Oscillation
  BY DEF Follows
<1>1. /\ Len(names) \in Nat /\ DOMAIN names = 1 .. Len(names)
      /\ DOMAIN Append(names, x) = 1 .. Len(names) + 1
      /\ Append(names, x)[Len(names) + 1] = x
      /\ \A k \in 1 .. Len(names) : Append(names, x)[k] = names[k]
  OBVIOUS
<1>2. CASE n = Len(names) + 1
  <2>1. OnOscillation(x) /\ names # <<>> /\ names[Len(names)] = BT!Oscillation
    BY <1>1, <1>2
  <2>2. Len(names) # 0
    BY <2>1
  <2>3. n - 1 = Len(names) /\ n > 1 /\ Len(names) \in 1 .. Len(names)
    BY <1>1, <1>2, <2>2
  <2>4. Append(names, x)[n - 1] = names[Len(names)] /\ Append(names, x)[n] = x
    BY <1>1, <1>2, <2>3
  <2> QED
    BY <2>1, <2>3, <2>4
<1>3. CASE n # Len(names) + 1
  BY <1>1, <1>3 DEF Follows
<1> QED
  BY <1>2, <1>3

LEMMA TradeTypesKept ==
  ASSUME TradeTypes, NEW name \in Labels, orderNames' = Append(orderNames, name)
  PROVE  TradeTypes'
  BY Appended DEF TradeTypes

LEMMA RecentAfter ==
  ASSUME TradeTypes, NEW name, orderNames' = Append(orderNames, name)
  PROVE  /\ BT!Recent(1)' = name /\ orderNames' # <<>>
         /\ Len(orderNames') = Len(orderNames) + 1
         /\ orderNames'[Len(orderNames) + 1] = name
         /\ \A n \in 1 .. Len(orderNames) : orderNames'[n] = orderNames[n]
  BY DEF BT!Recent, TradeTypes

(* What check_in_by_model answers is the name of an entry: is_in_twice is  *)
(* never asked, because "up" follows a name of the oscillation.            *)
LEMMA EntriesOnly ==
  ASSUME TradeInv, NEW m \in BT!Market, BT!BuySignal(m) # BT!None
  PROVE  BT!BuySignal(m) \in Entries
<1>1. BT!TopRiseIn(m) \in Entries \cup {BT!None} /\ BT!OscillationIn(m) \in Entries \cup {BT!None}
  BY DEF BT!TopRiseIn, BT!OscillationIn, Entries
<1>2. ~(BT!Recent(2).model = "top_rise" /\ BT!Recent(1) = Up)
  <2> SUFFICES ASSUME BT!Recent(2).model = "top_rise", BT!Recent(1) = Up PROVE FALSE
    OBVIOUS
  <2>1. CASE Len(orderNames) >= 1
    <3>1. BT!Recent(1) = orderNames[Len(orderNames)] /\ Len(orderNames) \in DOMAIN orderNames
      BY <2>1 DEF BT!Recent, TradeInv, TradeTypes
    <3>2. IsSale(orderNames[Len(orderNames)])
      BY <3>1, NameParts DEF IsSale
    <3>3. Len(orderNames) > 1 /\ orderNames[Len(orderNames) - 1] = BT!Oscillation
      BY <3>1, <3>2 DEF TradeInv, SalesFollow, Follows
    <3>4. BT!Recent(2) = BT!Oscillation
      BY <3>3 DEF BT!Recent, TradeInv, TradeTypes
    <3> QED
      BY <3>4, NameParts
  <2>2. CASE ~(Len(orderNames) >= 1)
    <3>1. BT!Recent(1) = BT!None
      BY <2>2 DEF BT!Recent
    <3> QED
      BY <3>1, NameParts
  <2> QED
    BY <2>1, <2>2
<1>3. BT!Either(BT!TopRiseIn(m), BT!OscillationIn(m)) \in Entries \cup {BT!None}
  BY <1>1 DEF BT!Either
<1>4. BT!AfterFirst(BT!Recent(1), m) \in Entries \cup {BT!None}
  BY <1>1 DEF BT!AfterFirst
<1>5. BT!AfterMore(BT!Recent(1), BT!Recent(2), m) \in Entries \cup {BT!None}
  BY <1>1, <1>2, <1>3 DEF BT!AfterMore, Up
<1> QED
  BY <1>3, <1>4, <1>5 DEF BT!BuySignal, BT!CheckIn

(* What check_out_by_model answers for the model that bought.              *)
LEMMA SalesOnly ==
  ASSUME NEW m \in BT!Market, BT!Recent(1) \in Entries, BT!SellSignal(m) # BT!None
  PROVE  /\ BT!SellSignal(m) \in Labels
         /\ BT!SellSignal(m).model = BT!Recent(1).model
         /\ BT!SellSignal(m).tail # "" => BT!Recent(1) = BT!Oscillation
<1>1. CASE BT!Recent(1) = BT!TopRise
  <2>1. BT!SellSignal(m) = BT!TopRiseOut(m)
    BY <1>1, NameParts DEF BT!SellSignal, BT!CheckOut
  <2>2. BT!SellSignal(m) = BT!TopRise
    BY <2>1 DEF BT!TopRiseOut
  <2> QED
    BY <1>1, <2>2, NameParts, NameTypes
<1>2. CASE BT!Recent(1) = BT!Oscillation
  <2>1. BT!SellSignal(m) = BT!OscillationOut(m)
    BY <1>2, NameParts DEF BT!SellSignal, BT!CheckOut
  <2>2. BT!SellSignal(m) \in {Up, Down}
    BY <2>1 DEF BT!OscillationOut, Up, Down
  <2> QED
    BY <1>2, <2>2, NameParts, NameTypes
<1> QED
  BY <1>1, <1>2 DEF Entries

LEMMA TradeStep == ASSUME TradeInv, [BT!Next]_BT!backtestVars PROVE TradeInv'
<1>1. ASSUME NEW m \in BT!Market, BT!NextBar(m), position PROVE TradeInv'
  <2> DEFINE name == BT!SellSignal(m)
  <2>1. /\ order = "none" /\ order' = "sell" /\ name # BT!None
        /\ orderNames' = Append(orderNames, name)
        /\ position' = position /\ heldBy' = heldBy
    BY <1>1 DEF BT!NextBar, BT!Place
  <2>2. orderNames # <<>> /\ BT!Recent(1) \in Entries /\ heldBy = BT!Recent(1)
    BY <1>1, <2>1 DEF TradeInv, BuyerIsRecent
  <2>3. name \in Labels /\ name.model = BT!Recent(1).model /\ (name.tail # "" => BT!Recent(1) = BT!Oscillation)
    BY <2>1, <2>2, SalesOnly
  <2> HIDE DEF name
  <2>9. orderNames' = Append(orderNames, name) /\ name \in Labels
    BY <2>1, <2>3
  <2>4. TradeTypes'
    BY <2>9, TradeTypesKept DEF TradeInv
  <2>5. /\ BT!Recent(1)' = name /\ orderNames' # <<>> /\ Len(orderNames') = Len(orderNames) + 1
        /\ orderNames'[Len(orderNames) + 1] = name
        /\ \A n \in 1 .. Len(orderNames) : orderNames'[n] = orderNames[n]
    BY <2>1, RecentAfter DEF TradeInv
  <2>6. BT!Recent(1) = orderNames[Len(orderNames)] /\ Len(orderNames) \in Nat \ {0}
    BY <2>2 DEF TradeInv, TradeTypes, BT!Recent
  <2>7. SalesFollow'
    <3>1. IsSale(name) => OnOscillation(name) /\ orderNames # <<>> /\ orderNames[Len(orderNames)] = BT!Oscillation
      BY <2>2, <2>3, <2>6, NameParts DEF IsSale, OnOscillation
    <3> QED
      BY <2>9, <3>1, FollowsAppended DEF TradeInv, TradeTypes, SalesFollow
  <2>8. BuyerIsRecent'
    BY <1>1, <2>1, <2>2, <2>3, <2>5 DEF BuyerIsRecent
  <2> QED
    BY <2>4, <2>7, <2>8 DEF TradeInv
<1>2. ASSUME NEW m \in BT!Market, BT!NextBar(m), ~position PROVE TradeInv'
  <2> DEFINE name == BT!BuySignal(m)
  <2>1. /\ order = "none" /\ order' = "buy" /\ name # BT!None
        /\ orderNames' = Append(orderNames, name)
        /\ position' = position /\ heldBy' = heldBy
    BY <1>2 DEF BT!NextBar, BT!Place
  <2>2. name \in Entries
    BY <2>1, EntriesOnly
  <2>3. name \in Labels /\ name.tail = ""
    BY <2>2, NameParts, NameTypes DEF Entries
  <2> HIDE DEF name
  <2>9. orderNames' = Append(orderNames, name) /\ name \in Labels
    BY <2>1, <2>3
  <2>4. TradeTypes'
    BY <2>9, TradeTypesKept DEF TradeInv
  <2>5. /\ BT!Recent(1)' = name /\ orderNames' # <<>> /\ Len(orderNames') = Len(orderNames) + 1
        /\ orderNames'[Len(orderNames) + 1] = name
        /\ \A n \in 1 .. Len(orderNames) : orderNames'[n] = orderNames[n]
    BY <2>1, RecentAfter DEF TradeInv
  <2>6. SalesFollow'
    <3>1. ~IsSale(name)
      BY <2>3 DEF IsSale
    <3> QED
      BY <2>9, <3>1, FollowsAppended DEF TradeInv, TradeTypes, SalesFollow
  <2>7. BuyerIsRecent'
    BY <1>2, <2>1, <2>2, <2>5 DEF BuyerIsRecent
  <2> QED
    BY <2>4, <2>6, <2>7 DEF TradeInv
<1>3. CASE BT!Filled
  BY <1>3 DEF BT!Filled, TradeInv, TradeTypes, SalesFollow, BuyerIsRecent, BT!Recent
<1>4. CASE BT!Refused
  BY <1>4 DEF BT!Refused, TradeInv, TradeTypes, SalesFollow, BuyerIsRecent, BT!Recent
<1>5. CASE UNCHANGED BT!backtestVars
  BY <1>5 DEF BT!backtestVars, TradeInv, TradeTypes, SalesFollow, BuyerIsRecent, BT!Recent
<1> QED
  BY <1>1, <1>2, <1>3, <1>4, <1>5 DEF BT!Next

(* Some market in which both rules speak.                                  *)
Speaks == [entry |-> TRUE, exit |-> FALSE, marks |-> 2, newHigh |-> FALSE, newLow |-> FALSE,
           above |-> FALSE, below |-> FALSE, away |-> FALSE, nearUpper |-> FALSE, force |-> FALSE]

LEMMA SomeMarket ==
  /\ Speaks \in BT!Market
  /\ BT!TopRiseIn(Speaks) = BT!TopRise /\ BT!OscillationIn(Speaks) = BT!Oscillation
  /\ BT!TopRise # BT!None /\ BT!Oscillation # BT!None
<1>1. Speaks \in BT!Market
  BY DEF Speaks, BT!Market
<1>2. BT!TopRiseIn(Speaks) = BT!TopRise /\ BT!OscillationIn(Speaks) = BT!Oscillation
  BY DEF Speaks, BT!TopRiseIn, BT!OscillationIn
<1> QED
  BY <1>1, <1>2, NameParts

LEMMA Trades == TradeInv => BT!TradesUnlessFirstRefused
<1> SUFFICES ASSUME TradeInv, order = "none", ~position, orderNames # <<BT!Oscillation>>
             PROVE  BT!BuySignal(Speaks) # BT!None
  BY SomeMarket DEF BT!TradesUnlessFirstRefused
<1>1. CASE orderNames = <<>>
  BY <1>1, SomeMarket DEF BT!BuySignal, BT!CheckIn, BT!Either, BT!Recent
<1>2. CASE Len(orderNames) = 1
  <2>1. BT!Recent(1) = orderNames[1] /\ BT!Recent(2) = BT!None /\ orderNames[1] \in Labels /\ orderNames = <<orderNames[1]>>
    BY <1>2 DEF BT!Recent, TradeInv, TradeTypes
  <2>2. ~IsSale(orderNames[1])
    BY <1>2 DEF TradeInv, TradeTypes, SalesFollow, Follows
  <2>3. orderNames[1] # BT!Oscillation
    BY <2>1
  <2>4. orderNames[1].model = "top_rise"
    BY <2>1, <2>2, <2>3, LabelsDiffer DEF IsSale
  <2>5. BT!Recent(1) # BT!None /\ BT!Recent(1).model = "top_rise"
    BY <2>1, <2>4, LabelsDiffer
  <2>6. BT!AfterFirst(BT!Recent(1), Speaks) = BT!Oscillation
    BY <2>5, SomeMarket DEF BT!AfterFirst
  <2> QED
    BY <2>1, <2>5, <2>6, SomeMarket DEF BT!BuySignal, BT!CheckIn
<1>3. CASE Len(orderNames) > 1
  <2>1. BT!Recent(1) \in Labels /\ BT!Recent(2) \in Labels
    BY <1>3 DEF BT!Recent, TradeInv, TradeTypes
  <2>2. BT!Recent(1) # BT!None /\ BT!Recent(2) # BT!None
    BY <2>1, LabelsDiffer
  <2>3. CASE BT!Recent(2).model = "top_rise" /\ BT!Recent(1) = Up
    <3>1. /\ Len(orderNames) \in DOMAIN orderNames
          /\ BT!Recent(1) = orderNames[Len(orderNames)] /\ BT!Recent(2) = orderNames[Len(orderNames) - 1]
      BY <1>3 DEF BT!Recent, TradeInv, TradeTypes
    <3>2. orderNames[Len(orderNames) - 1] = BT!Oscillation
      <4>1. IsSale(orderNames[Len(orderNames)])
        BY <2>3, <3>1, NameParts DEF IsSale
      <4> QED
        BY <3>1, <4>1 DEF TradeInv, SalesFollow, Follows
    <3> QED
      BY <2>3, <3>1, <3>2, NameParts
  <2>4. CASE ~(BT!Recent(2).model = "top_rise" /\ BT!Recent(1) = Up)
    <3>1. BT!Either(BT!TopRiseIn(Speaks), BT!OscillationIn(Speaks)) # BT!None
      BY SomeMarket DEF BT!Either
    <3>2. BT!AfterMore(BT!Recent(1), BT!Recent(2), Speaks) # BT!None
      BY <2>4, <3>1, SomeMarket DEF BT!AfterMore, Up
    <3> QED
      BY <2>2, <3>2 DEF BT!BuySignal, BT!CheckIn
  <2> QED
    BY <2>3, <2>4
<1>4. orderNames \in Seq(Labels)
  BY DEF TradeInv, TradeTypes
<1>5. orderNames = <<>> \/ Len(orderNames) = 1 \/ Len(orderNames) > 1
  BY <1>4, Lengths
<1> QED
  BY <1>1, <1>2, <1>3, <1>5, Zenon

(* Bounds of a run; what is held was bought by an order of the list.       *)
BacktestBounds ==
    /\ Len(orderNames) <= MaxOrders /\ order \in {"none", "buy", "sell"} /\ position \in BOOLEAN
    /\ heldBy \in {orderNames[n] : n \in DOMAIN orderNames} \cup {BT!None}

LEMMA BoundsStay ==
  ASSUME MaxOrders \in Nat, TradeInv, BacktestBounds, TradeInv', [BT!Next]_BT!backtestVars
  PROVE  BacktestBounds'
<1>1. orderNames \in Seq(Labels)
  BY DEF TradeInv, TradeTypes
<1>2. ASSUME NEW m \in BT!Market, BT!NextBar(m) PROVE BacktestBounds'
  <2>1. PICK name : orderNames' = Append(orderNames, name)
    BY <1>2 DEF BT!NextBar, BT!Place
  <2>2. /\ order' \in {"buy", "sell"} /\ Len(orderNames) < MaxOrders
        /\ position' = position /\ heldBy' = heldBy
    BY <1>2 DEF BT!NextBar, BT!Place
  <2>3. /\ Len(orderNames') = Len(orderNames) + 1 /\ DOMAIN orderNames \subseteq DOMAIN orderNames'
        /\ \A n \in DOMAIN orderNames : orderNames'[n] = orderNames[n]
    BY <1>1, <2>1
  <2>4. heldBy' \in {orderNames'[n] : n \in DOMAIN orderNames'} \cup {BT!None}
    BY <2>2, <2>3 DEF BacktestBounds
  <2>5. Len(orderNames') <= MaxOrders
    <3>1. Len(orderNames) \in Nat
      BY <1>1
    <3> QED
      BY <2>2, <2>3, <3>1
  <2> QED
    BY <2>2, <2>4, <2>5 DEF BacktestBounds
<1>3. CASE BT!Filled
  <2>1. orderNames' = orderNames /\ order' = "none" /\ position' \in BOOLEAN
    BY <1>3 DEF BT!Filled
  <2>2. heldBy' = BT!None \/ heldBy' = BT!Recent(1)
    BY <1>3 DEF BT!Filled
  <2>3. BT!Recent(1) \in {orderNames[n] : n \in DOMAIN orderNames} \cup {BT!None}
    BY <1>1 DEF BT!Recent
  <2> QED
    BY <2>1, <2>2, <2>3 DEF BacktestBounds
<1>4. CASE BT!Refused \/ UNCHANGED BT!backtestVars
  BY <1>4 DEF BT!Refused, BT!backtestVars, BacktestBounds
<1> QED
  BY <1>2, <1>3, <1>4 DEF BT!Next

LEMMA BacktestTyped ==
  ASSUME TradeInv, BacktestBounds
  PROVE  BT!TypeOK
<1>1. orderNames \in Seq(Labels)
  BY DEF TradeInv, TradeTypes
<1>2. \A n \in DOMAIN orderNames : orderNames[n] \in Labels
  BY <1>1
<1>3. Labels \subseteq [model : {"top_rise", "oscillation"}, tail : {"", "up", "down", "twice"}]
  BY DEF Labels
<1> QED
  BY <1>2, <1>3 DEF BT!TypeOK, BacktestBounds

(* Whatever orders are refused, some market brings the next purchase       *)
(* unless it was the first one, on an oscillation; nothing is bought a     *)
(* second time, and the model that bought is the one that sells            *)
(* (business/strategy.py:164-201, 283-291).                                *)
THEOREM ModelsDecide == ASSUME MaxOrders \in Nat PROVE BT!Spec => [](BT!OrdersFollowModels /\ BT!TypeOK)
<1>1. BT!Init => TradeInv
  <2> SUFFICES ASSUME BT!Init PROVE TradeInv
    OBVIOUS
  <2>1. orderNames = <<>>
    BY DEF BT!Init
  <2>2. TradeTypes /\ SalesFollow
    BY <2>1 DEF TradeTypes, SalesFollow, Follows
  <2>3. BuyerIsRecent
    BY DEF BT!Init, BuyerIsRecent
  <2> QED
    BY <2>2, <2>3 DEF TradeInv
<1>2. TradeInv /\ [BT!Next]_BT!backtestVars => TradeInv'
  BY TradeStep
<1>3. TradeInv => BT!OrdersFollowModels
  <2> SUFFICES ASSUME TradeInv PROVE BT!OrdersFollowModels
    OBVIOUS
  <2>1. BT!NeverEntersTwice
    <3>1. \A n \in DOMAIN orderNames : orderNames[n] \in Labels
      BY DEF TradeInv, TradeTypes
    <3>2. \A name \in Labels : name.tail # "twice"
      BY DEF Labels
    <3> QED
      BY <3>1, <3>2 DEF BT!NeverEntersTwice
  <2>2. BT!SoldByItsBuyer
    BY DEF TradeInv, BuyerIsRecent, BT!SoldByItsBuyer
  <2> QED
    BY <2>1, <2>2, Trades DEF BT!OrdersFollowModels
<1>4. BT!Init => BacktestBounds
  <2> SUFFICES ASSUME BT!Init PROVE BacktestBounds
    OBVIOUS
  <2>1. Len(orderNames) = 0 /\ order = "none" /\ position = FALSE /\ heldBy = BT!None
    BY DEF BT!Init
  <2>2. Len(orderNames) <= MaxOrders
    BY <2>1
  <2>3. heldBy \in {orderNames[n] : n \in DOMAIN orderNames} \cup {BT!None}
    BY <2>1
  <2> QED
    BY <2>1, <2>2, <2>3 DEF BacktestBounds
<1>5. TradeInv /\ BacktestBounds /\ TradeInv' /\ [BT!Next]_BT!backtestVars => BacktestBounds'
  BY BoundsStay
<1>6. TradeInv /\ BacktestBounds => BT!TypeOK
  BY BacktestTyped
<1> QED
  BY <1>1, <1>2, <1>3, <1>4, <1>5, <1>6, PTL DEF BT!Spec

-----------------------------------------------------------------------------
(***************************************************************************)
(* The list of monitors (MonitorList): overlapping requests.               *)
(***************************************************************************)

Monitor == [id : Nat, owner : Owners, symbol : ListSymbols, sell : BOOLEAN, valid : BOOLEAN]
ListAsked == [owner : Owners, symbol : ListSymbols, sell : BOOLEAN]
ListAdding == [at : {"sync", "lock", "look", "count", "create", "release"}, new : ListAsked]
Deleting == [at : {"delete"}, id : Nat]

ListTypes ==
    /\ monitors \subseteq Monitor /\ IsFiniteSet(monitors)
    /\ lastId \in Nat /\ outlived \in Nat
    /\ lock \in [ML!Locks -> Requests \cup {ML!Free, ML!Gone}]
    /\ adding \in [Requests -> {ML!NoRequest} \cup ListAdding \cup Deleting]

(* The requests that work on an owner's rows without his lock: a lease     *)
(* ended for each of them.                                                 *)
Lockless == {r \in Requests : adding[r].at \in {"look", "count", "create"} /\ lock[adding[r].new.owner] # r}
LocklessPaid == Cardinality(Lockless) <= outlived

(* The rows a user has, with those about to be written.                    *)
Creating(o) == {r \in Requests : adding[r].at = "create" /\ adding[r].new.owner = o}
QuotaAhead == \A o \in Owners \ {"root"} : Cardinality(ML!Of(o)) + Cardinality(Creating(o)) <= Quota + outlived

(* Who asks for a sell monitor has the lock of the synchronisation, and so *)
(* what he has read of the positions still holds.                          *)
SellsLocked ==
    outlived = 0 =>
        \A r \in Requests :
            adding[r].at \in {"lock", "look", "count", "create"} /\ adding[r].new.sell =>
                /\ lock[ML!Sync] = r
                /\ adding[r].at \in {"count", "create"} => adding[r].new.symbol \in held

ListInv == ListTypes /\ LocklessPaid /\ QuotaAhead /\ ML!OneMonitorEach /\ SellsLocked /\ ML!AddedOnlyIfHeld

(* What a step does to the request that takes it.                          *)
LEMMA GotoMoves ==
  ASSUME ListTypes, NEW r \in Requests, adding[r] \in ListAdding, NEW place, ML!Goto(r, place)
  PROVE  adding' = [adding EXCEPT ![r] = [at |-> place, new |-> adding[r].new]]
<1>1. [adding[r] EXCEPT !.at = place] = [at |-> place, new |-> adding[r].new]
  BY DEF ListAdding
<1>2. adding' = [adding EXCEPT ![r] = [adding[r] EXCEPT !.at = place]]
  BY DEF ML!Goto
<1> QED
  BY <1>1, <1>2

LEMMA PlaceTells ==
  ASSUME ListTypes, NEW r \in Requests,
         adding[r].at \in {"sync", "lock", "look", "count", "create"}
  PROVE  adding[r] \in ListAdding
  BY DEF ListTypes, ML!NoRequest, Deleting

LEMMA CardinalitiesAreNatural ==
  ASSUME ML!ListAssumption, ListTypes
  PROVE  /\ IsFiniteSet(Lockless) /\ Cardinality(Lockless) \in Nat
         /\ \A o : IsFiniteSet(ML!Of(o)) /\ Cardinality(ML!Of(o)) \in Nat
         /\ \A o : IsFiniteSet(Creating(o)) /\ Cardinality(Creating(o)) \in Nat
<1>1. Lockless \subseteq Requests
  BY DEF Lockless
<1>2. \A o : ML!Of(o) \subseteq monitors /\ Creating(o) \subseteq Requests
  BY DEF ML!Of, Creating
<1> QED
  BY <1>1, <1>2, FS_Subset, FS_CardinalityType, SameOperators DEF ML!ListAssumption, ListTypes

(* A synchronisation changes whether a monitor is active, and nothing else. *)
LEMMA SyncPauses ==
  ASSUME ListTypes, NEW now \in SUBSET ListSymbols, ML!SpotSync(now)
  PROVE  /\ \A n \in monitors' : /\ n \in Monitor
                                 /\ n.sell /\ n.valid => n.symbol \in now
                                 /\ \E m \in monitors : /\ n.id = m.id /\ n.owner = m.owner
                                                        /\ n.symbol = m.symbol /\ n.sell = m.sell
                                                        /\ n = IF m.sell /\ m.symbol \notin now
                                                               THEN [m EXCEPT !.valid = FALSE] ELSE m
         /\ IsFiniteSet(monitors')
         /\ \A o : Cardinality(ML!Of(o)') <= Cardinality(ML!Of(o))
<1> DEFINE Paused(m) == IF m.sell /\ m.symbol \notin now THEN [m EXCEPT !.valid = FALSE] ELSE m
<1>1. monitors' = {Paused(m) : m \in monitors}
  BY DEF ML!SpotSync
<1>2. ASSUME NEW m \in monitors
      PROVE  /\ Paused(m) \in Monitor
             /\ Paused(m).id = m.id /\ Paused(m).owner = m.owner
             /\ Paused(m).symbol = m.symbol /\ Paused(m).sell = m.sell
             /\ Paused(m).sell /\ Paused(m).valid => Paused(m).symbol \in now
  <2>1. m \in Monitor
    BY DEF ListTypes
  <2>2. CASE m.sell /\ m.symbol \notin now
    <3>1. Paused(m) = [id |-> m.id, owner |-> m.owner, symbol |-> m.symbol, sell |-> m.sell, valid |-> FALSE]
      BY <2>1, <2>2 DEF Monitor
    <3> QED
      BY <2>1, <2>2, <3>1 DEF Monitor
  <2>3. CASE ~(m.sell /\ m.symbol \notin now)
    BY <2>1, <2>3
  <2> QED
    BY <2>2, <2>3
<1> HIDE DEF Paused
<1>3. ASSUME NEW S, IsFiniteSet(S), NEW T, T = {Paused(m) : m \in S}
      PROVE  IsFiniteSet(T) /\ Cardinality(T) <= Cardinality(S)
  <2>1. [m \in S |-> Paused(m)] \in Surjection(S, T)
    BY <1>3 DEF Surjection
  <2> QED
    BY <1>3, <2>1, FS_Surjection
<1>4. IsFiniteSet(monitors')
  BY <1>1, <1>3 DEF ListTypes
<1>5. ASSUME NEW o PROVE Cardinality(ML!Of(o)') <= Cardinality(ML!Of(o))
  <2>1. ML!Of(o)' = {Paused(m) : m \in ML!Of(o)}
    BY <1>1, <1>2 DEF ML!Of
  <2>2. IsFiniteSet(ML!Of(o))
    BY FS_Subset DEF ML!Of, ListTypes
  <2> QED
    BY <1>3, <2>1, <2>2
<1>6. ASSUME NEW n \in monitors'
      PROVE  /\ n \in Monitor
             /\ n.sell /\ n.valid => n.symbol \in now
             /\ \E m \in monitors : /\ n.id = m.id /\ n.owner = m.owner
                                    /\ n.symbol = m.symbol /\ n.sell = m.sell
                                    /\ n = Paused(m)
  BY <1>1, <1>2
<1> QED
  BY <1>4, <1>5, <1>6 DEF Paused

LEMMA ListTypesKept ==
  ASSUME ML!ListAssumption, ListTypes, [ML!Next]_ML!listVars
  PROVE  ListTypes'
<1>1. ASSUME NEW r \in Requests, NEW new \in New, ML!AskToAdd(r, new) PROVE ListTypes'
  <2>1. [at |-> IF new.sell THEN "sync" ELSE "lock", new |-> new] \in ListAdding
    BY DEF ML!ListAssumption, ListAdding, ListAsked
  <2> QED
    BY <1>1, <2>1 DEF ML!AskToAdd, ListTypes
<1>2. ASSUME NEW r \in Requests, ML!LockSync(r) \/ ML!LockOwner(r) \/ ML!GiveUp(r) \/ ML!LookForSymbol(r)
                                 \/ ML!CountSymbols(r) \/ ML!CreateRow(r)
      PROVE  adding' \in [Requests -> {ML!NoRequest} \cup ListAdding \cup Deleting]
  <2>1. adding[r] \in ListAdding
    BY <1>2, PlaceTells DEF ML!LockSync, ML!LockOwner, ML!Take, ML!GiveUp, ML!LookForSymbol, ML!CountSymbols, ML!CreateRow
  <2>2. PICK place \in {"lock", "look", "count", "create", "release"} : ML!Goto(r, place)
    BY <1>2 DEF ML!LockSync, ML!LockOwner, ML!Take, ML!GiveUp, ML!LookForSymbol, ML!CountSymbols, ML!CreateRow
  <2> QED
    BY <2>1, <2>2, GotoMoves DEF ListTypes, ListAdding
<1>3. ASSUME NEW r \in Requests, ML!LockSync(r) PROVE ListTypes'
  BY <1>2, <1>3 DEF ML!LockSync, ML!Take, ListTypes, ML!Locks
<1>4. ASSUME NEW r \in Requests, ML!LockOwner(r) PROVE ListTypes'
  <2>1. adding[r].new.owner \in ML!Locks
    BY <1>4, PlaceTells DEF ML!LockOwner, ML!Locks, ListAdding, ListAsked
  <2> QED
    BY <1>2, <1>4, <2>1 DEF ML!LockOwner, ML!Take, ListTypes
<1>5. ASSUME NEW r \in Requests, ML!GiveUp(r) \/ ML!LookForSymbol(r) \/ ML!CountSymbols(r) PROVE ListTypes'
  BY <1>2, <1>5 DEF ML!GiveUp, ML!LookForSymbol, ML!CountSymbols, ListTypes
<1>6. ASSUME NEW r \in Requests, ML!CreateRow(r) PROVE ListTypes'
  <2>1. adding[r] \in ListAdding /\ lastId + 1 \in Nat
    BY <1>6, PlaceTells DEF ML!CreateRow, ListTypes
  <2>2. ML!Row(lastId + 1, adding[r].new) \in Monitor
    BY <2>1 DEF ML!Row, Monitor, ListAdding, ListAsked
  <2>3. \/ monitors' = monitors /\ lastId' = lastId
        \/ monitors' = monitors \cup {ML!Row(lastId + 1, adding[r].new)} /\ lastId' = lastId + 1
    BY <1>6 DEF ML!CreateRow
  <2>4. lock' = lock /\ outlived' = outlived
    BY <1>6 DEF ML!CreateRow
  <2> QED
    BY <1>2, <1>6, <2>1, <2>2, <2>3, <2>4, FS_AddElement DEF ListTypes
<1>7. ASSUME NEW r \in Requests, ML!Release(r) PROVE ListTypes'
  BY <1>7 DEF ML!Release, ListTypes
<1>8. ASSUME NEW r \in Requests, NEW m \in monitors, ML!AskToDelete(r, m) PROVE ListTypes'
  <2>1. [at |-> "delete", id |-> m.id] \in Deleting
    BY DEF ListTypes, Monitor, Deleting
  <2> QED
    BY <1>8, <2>1 DEF ML!AskToDelete, ListTypes
<1>9. ASSUME NEW r \in Requests, ML!DeleteRow(r) PROVE ListTypes'
  <2>1. monitors' \subseteq monitors
    BY <1>9 DEF ML!DeleteRow
  <2> QED
    BY <1>9, <2>1, FS_Subset DEF ML!DeleteRow, ListTypes
<1>10. ASSUME NEW now \in SUBSET ListSymbols, ML!SpotSync(now) PROVE ListTypes'
  <2>1. monitors' \subseteq Monitor /\ IsFiniteSet(monitors')
    BY <1>10, SyncPauses
  <2> QED
    BY <1>10, <2>1 DEF ML!SpotSync, ListTypes
<1>11. ASSUME NEW l \in ML!Locks, ML!LeaseEnds(l) PROVE ListTypes'
  BY <1>11 DEF ML!LeaseEnds, ListTypes
<1>12. CASE ML!Restart
  BY <1>12 DEF ML!Restart, ListTypes
<1>13. CASE UNCHANGED ML!listVars
  BY <1>13 DEF ML!listVars, ListTypes
<1> QED
  BY <1>1, <1>3, <1>4, <1>5, <1>6, <1>7, <1>8, <1>9, <1>10, <1>11, <1>12, <1>13 DEF ML!Next

(* Steps of a request that is adding a monitor, and its other steps.       *)
Moves(r) ==
    ML!LockSync(r) \/ ML!LockOwner(r) \/ ML!GiveUp(r) \/ ML!LookForSymbol(r) \/ ML!CountSymbols(r) \/ ML!CreateRow(r)
Begins(r) ==
    \/ \E new \in New : ML!AskToAdd(r, new)
    \/ \E m \in monitors : ML!AskToDelete(r, m)
    \/ ML!Release(r) \/ ML!DeleteRow(r)

LEMMA NextSplits ==
  ML!Next => \/ \E r \in Requests : Moves(r) \/ Begins(r)
             \/ \E now \in SUBSET ListSymbols : ML!SpotSync(now)
             \/ \E l \in ML!Locks : ML!LeaseEnds(l)
             \/ ML!Restart
<1>1. {} \in SUBSET ListSymbols /\ ListSymbols \in SUBSET ListSymbols
  OBVIOUS
<1>2. (\E now \in {{}, ListSymbols} : ML!SpotSync(now)) => \E now \in SUBSET ListSymbols : ML!SpotSync(now)
  BY <1>1
<1>3. ASSUME NEW r \in Requests,
             \/ \E new \in New : ML!AskToAdd(r, new)
             \/ ML!LockSync(r) \/ ML!LockOwner(r) \/ ML!GiveUp(r)
             \/ ML!LookForSymbol(r) \/ ML!CountSymbols(r) \/ ML!CreateRow(r) \/ ML!Release(r)
             \/ \E m \in monitors : ML!AskToDelete(r, m)
             \/ ML!DeleteRow(r)
      PROVE  Moves(r) \/ Begins(r)
  BY <1>3 DEF Moves, Begins
<1> QED
  BY <1>2, <1>3 DEF ML!Next

(* What is asked for stays, and where the request goes.                    *)
LEMMA RequestMoves ==
  ASSUME ListTypes, NEW r \in Requests, Moves(r)
  PROVE  /\ adding[r] \in ListAdding
         /\ adding'[r].new = adding[r].new
         /\ \A q \in Requests : q # r => adding'[q] = adding[q]
         /\ ML!LockSync(r) => adding[r].at = "sync" /\ adding'[r].at = "lock"
         /\ ML!LockOwner(r) => adding[r].at = "lock" /\ adding'[r].at = "look"
         /\ ML!GiveUp(r) => adding'[r].at = "release"
         /\ ML!LookForSymbol(r) =>
               /\ adding[r].at = "look"
               /\ adding'[r].at \in {"release", "create", "count"}
               /\ adding'[r].at = "create" => adding[r].new.owner = "root"
               /\ adding'[r].at # "release" => (adding[r].new.sell => adding[r].new.symbol \in held)
         /\ ML!CountSymbols(r) =>
               /\ adding[r].at = "count"
               /\ adding'[r].at \in {"release", "create"}
               /\ adding'[r].at = "create" => ~(Cardinality(ML!Of(adding[r].new.owner)) >= Quota)
         /\ ML!CreateRow(r) => adding[r].at = "create" /\ adding'[r].at = "release"
<1>1. adding[r] \in ListAdding
  BY PlaceTells DEF Moves, ML!LockSync, ML!LockOwner, ML!Take, ML!GiveUp, ML!LookForSymbol, ML!CountSymbols, ML!CreateRow
<1>2. ASSUME NEW place, ML!Goto(r, place)
      PROVE  /\ adding'[r].at = place /\ adding'[r].new = adding[r].new
             /\ \A q \in Requests : q # r => adding'[q] = adding[q]
  BY <1>1, <1>2, GotoMoves DEF ListTypes
<1>3. CASE ML!LockSync(r) \/ ML!LockOwner(r) \/ ML!GiveUp(r)
  BY <1>1, <1>2, <1>3 DEF ML!LockSync, ML!LockOwner, ML!Take, ML!GiveUp, ML!LookForSymbol, ML!CountSymbols, ML!CreateRow
<1>4. CASE ML!LookForSymbol(r)
  BY <1>1, <1>2, <1>4 DEF ML!LockSync, ML!LockOwner, ML!Take, ML!GiveUp, ML!LookForSymbol, ML!CountSymbols, ML!CreateRow
<1>5. CASE ML!CountSymbols(r)
  BY <1>1, <1>2, <1>5, SameOperators DEF ML!LockSync, ML!LockOwner, ML!Take, ML!GiveUp, ML!LookForSymbol, ML!CountSymbols, ML!CreateRow
<1>6. CASE ML!CreateRow(r)
  BY <1>1, <1>2, <1>6 DEF ML!LockSync, ML!LockOwner, ML!Take, ML!GiveUp, ML!LookForSymbol, ML!CountSymbols, ML!CreateRow
<1> QED
  BY <1>3, <1>4, <1>5, <1>6 DEF Moves

LEMMA RequestBegins ==
  ASSUME ML!ListAssumption, ListTypes, NEW r \in Requests, Begins(r)
  PROVE  /\ adding'[r].at \in {"idle", "sync", "lock", "delete"}
         /\ adding'[r].at = "lock" => ~adding'[r].new.sell
         /\ \A q \in Requests : q # r => adding'[q] = adding[q]
         /\ held' = held /\ outlived' = outlived
         /\ monitors' \subseteq monitors
         /\ \A l \in ML!Locks : lock'[l] = lock[l] \/ lock[l] = r
<1>1. ASSUME NEW new \in New, ML!AskToAdd(r, new)
      PROVE  /\ adding'[r].at \in {"sync", "lock"} /\ (adding'[r].at = "lock" => ~adding'[r].new.sell)
             /\ \A q \in Requests : q # r => adding'[q] = adding[q]
             /\ UNCHANGED <<held, outlived, monitors, lock>>
  <2>1. /\ adding'[r] = [at |-> IF new.sell THEN "sync" ELSE "lock", new |-> new]
        /\ \A q \in Requests : q # r => adding'[q] = adding[q]
        /\ UNCHANGED <<held, outlived, monitors, lock>>
    BY <1>1 DEF ML!AskToAdd, ListTypes
  <2>2. CASE new.sell
    BY <2>1, <2>2
  <2>3. CASE ~new.sell
    BY <2>1, <2>3
  <2> QED
    BY <2>2, <2>3
<1>2. CASE \E new \in New : ML!AskToAdd(r, new)
  BY <1>1, <1>2
<1>3. CASE \E m \in monitors : ML!AskToDelete(r, m)
  BY <1>3 DEF ML!AskToDelete, ListTypes
<1>4. CASE ML!Release(r)
  BY <1>4 DEF ML!Release, ML!NoRequest, ListTypes
<1>5. CASE ML!DeleteRow(r)
  BY <1>5 DEF ML!DeleteRow, ML!NoRequest, ListTypes
<1> QED
  BY <1>2, <1>3, <1>4, <1>5 DEF Begins

LEMMA LocklessKept ==
  ASSUME ML!ListAssumption, ListInv, [ML!Next]_ML!listVars
  PROVE  LocklessPaid'
<1>0. ListTypes /\ LocklessPaid /\ IsFiniteSet(Lockless) /\ Cardinality(Lockless) \in Nat
  BY CardinalitiesAreNatural DEF ListInv
<1>1. ASSUME Lockless' \subseteq Lockless, outlived' = outlived PROVE LocklessPaid'
  <2>1. Cardinality(Lockless') <= Cardinality(Lockless) /\ Cardinality(Lockless') \in Nat
    BY <1>0, <1>1, FS_Subset, FS_CardinalityType
  <2> QED
    BY <1>0, <1>1, <2>1 DEF LocklessPaid, ListTypes
<1>2. ASSUME NEW r \in Requests,
             ML!LockSync(r) \/ ML!GiveUp(r) \/ ML!LookForSymbol(r) \/ ML!CountSymbols(r) \/ ML!CreateRow(r)
      PROVE  LocklessPaid'
  <2>1. /\ outlived' = outlived
        /\ lock' = lock \/ lock' = [lock EXCEPT ![ML!Sync] = r]
    BY <1>2 DEF ML!LockSync, ML!Take, ML!GiveUp, ML!LookForSymbol, ML!CountSymbols, ML!CreateRow
  <2>2. \A o \in Owners : lock'[o] = lock[o]
    BY <1>0, <2>1 DEF ML!ListAssumption, ListTypes, ML!Locks
  <2>3. Lockless' \subseteq Lockless
    <3> SUFFICES ASSUME NEW q \in Lockless' PROVE q \in Lockless
      OBVIOUS
    <3>1. q \in Requests /\ adding'[q].at \in {"look", "count", "create"} /\ lock'[adding'[q].new.owner] # q
      BY DEF Lockless
    <3>2. adding'[q].new = adding[q].new /\ adding[q].at \in {"look", "count", "create"}
      BY <1>0, <1>2, <3>1, RequestMoves DEF Moves
    <3>3. adding[q].new.owner \in Owners
      BY <1>0, <3>1, <3>2, PlaceTells DEF ListAdding, ListAsked
    <3> QED
      BY <2>2, <3>1, <3>2, <3>3 DEF Lockless
  <2> QED
    BY <1>1, <2>1, <2>3
<1>3. ASSUME NEW r \in Requests, ML!LockOwner(r) PROVE LocklessPaid'
  <2> DEFINE o == adding[r].new.owner
  <2>1. /\ o \in ML!Locks /\ lock[o] = ML!Free
        /\ lock' = [lock EXCEPT ![o] = r] /\ outlived' = outlived
    BY <1>0, <1>3, RequestMoves DEF Moves, ML!LockOwner, ML!Take, ML!Locks, ListAdding, ListAsked
  <2>2. Lockless' \subseteq Lockless
    <3> SUFFICES ASSUME NEW q \in Lockless' PROVE q \in Lockless
      OBVIOUS
    <3>1. q \in Requests /\ adding'[q].at \in {"look", "count", "create"} /\ lock'[adding'[q].new.owner] # q
      BY DEF Lockless
    <3>2. q # r
      BY <1>0, <1>3, <2>1, <3>1, RequestMoves DEF ListTypes, Moves
    <3>3. adding'[q] = adding[q]
      BY <1>0, <1>3, <3>1, <3>2, RequestMoves DEF Moves
    <3>4. lock[adding[q].new.owner] # q
      BY <1>0, <2>1, <3>1, <3>3 DEF ML!ListAssumption, ListTypes
    <3> QED
      BY <3>1, <3>3, <3>4 DEF Lockless
  <2> QED
    BY <1>1, <2>1, <2>2
<1>4. ASSUME NEW r \in Requests, Begins(r) PROVE LocklessPaid'
  <2>1. Lockless' \subseteq Lockless
    <3> SUFFICES ASSUME NEW q \in Lockless' PROVE q \in Lockless
      OBVIOUS
    <3>1. q \in Requests /\ adding'[q].at \in {"look", "count", "create"} /\ lock'[adding'[q].new.owner] # q
      BY DEF Lockless
    <3>2. q # r /\ adding'[q] = adding[q]
      BY <1>0, <1>4, <3>1, RequestBegins
    <3>3. adding[q].new.owner \in ML!Locks
      BY <1>0, <3>1, <3>2, PlaceTells DEF ListAdding, ListAsked, ML!Locks
    <3>4. lock[adding[q].new.owner] # q
      BY <1>0, <1>4, <3>1, <3>2, <3>3, RequestBegins
    <3> QED
      BY <3>1, <3>2, <3>4 DEF Lockless
  <2> QED
    BY <1>0, <1>1, <1>4, <2>1, RequestBegins
<1>5. ASSUME NEW now, ML!SpotSync(now) PROVE LocklessPaid'
  BY <1>1, <1>5 DEF ML!SpotSync, Lockless
<1>6. ASSUME NEW l \in ML!Locks, ML!LeaseEnds(l) PROVE LocklessPaid'
  <2>1. lock' = [lock EXCEPT ![l] = ML!Free] /\ adding' = adding
    BY <1>6 DEF ML!LeaseEnds
  <2>2. Lockless' \subseteq Lockless \cup {lock[l]}
    BY <1>0, <2>1 DEF Lockless, ListTypes
  <2>3. CASE lock[l] = ML!Gone
    <3>1. Lockless' \subseteq Lockless
      BY <2>2, <2>3 DEF ML!ListAssumption, Lockless
    <3> QED
      BY <1>1, <1>6, <2>3, <3>1 DEF ML!LeaseEnds
  <2>4. CASE lock[l] # ML!Gone
    <3>1. outlived' = outlived + 1
      BY <1>6, <2>4 DEF ML!LeaseEnds
    <3>2. IsFiniteSet(Lockless \cup {lock[l]}) /\ Cardinality(Lockless \cup {lock[l]}) <= Cardinality(Lockless) + 1
      BY <1>0, FS_AddElement
    <3>3. Cardinality(Lockless') <= Cardinality(Lockless \cup {lock[l]}) /\ Cardinality(Lockless') \in Nat
          /\ Cardinality(Lockless \cup {lock[l]}) \in Nat
      BY <2>2, <3>2, FS_Subset, FS_CardinalityType
    <3> QED
      BY <1>0, <3>1, <3>2, <3>3 DEF LocklessPaid, ListTypes
  <2> QED
    BY <2>3, <2>4
<1>7. CASE ML!Restart
  <2>1. Lockless' = {}
    BY <1>7 DEF ML!Restart, Lockless, ML!NoRequest
  <2> QED
    BY <1>1, <1>7, <2>1 DEF ML!Restart
<1>8. CASE UNCHANGED ML!listVars
  BY <1>1, <1>8 DEF ML!listVars, Lockless
<1> QED
  BY <1>2, <1>3, <1>4, <1>5, <1>6, <1>7, <1>8, NextSplits DEF Moves

(* A step that neither adds to a user's rows nor to those about to be      *)
(* written keeps the quota.                                                *)
LEMMA QuotaOfFewer ==
  ASSUME ML!ListAssumption, ListInv, NEW o \in Owners \ {"root"},
         Cardinality(ML!Of(o)') <= Cardinality(ML!Of(o)), Cardinality(ML!Of(o)') \in Nat,
         Creating(o)' \subseteq Creating(o), outlived' \in {outlived, outlived + 1}
  PROVE  Cardinality(ML!Of(o)') + Cardinality(Creating(o)') <= Quota + outlived'
<1>1. /\ Cardinality(Creating(o)') <= Cardinality(Creating(o))
      /\ Cardinality(Creating(o)') \in Nat /\ Cardinality(Creating(o)) \in Nat
  BY CardinalitiesAreNatural, FS_Subset, FS_CardinalityType DEF ListInv
<1>2. Cardinality(ML!Of(o)) + Cardinality(Creating(o)) <= Quota + outlived /\ Cardinality(ML!Of(o)) \in Nat
  BY CardinalitiesAreNatural DEF ListInv, QuotaAhead
<1> QED
  BY <1>1, <1>2 DEF ListInv, ListTypes, ML!ListAssumption

LEMMA QuotaStays ==
  ASSUME ML!ListAssumption, ListInv, [ML!Next]_ML!listVars
  PROVE  QuotaAhead'
<1> SUFFICES ASSUME NEW o \in Owners \ {"root"}
             PROVE  Cardinality(ML!Of(o)') + Cardinality(Creating(o)') <= Quota + outlived'
  BY DEF QuotaAhead
<1>0. /\ ListTypes /\ ListTypes' /\ IsFiniteSet(ML!Of(o)) /\ Cardinality(ML!Of(o)) \in Nat
      /\ IsFiniteSet(ML!Of(o)') /\ Cardinality(ML!Of(o)') \in Nat
      /\ IsFiniteSet(Creating(o)) /\ Cardinality(Creating(o)) \in Nat
  <2>1. ListTypes /\ ListTypes'
    BY ListTypesKept DEF ListInv
  <2>2. ML!Of(o)' \subseteq monitors'
    BY DEF ML!Of
  <2>3. IsFiniteSet(ML!Of(o)') /\ Cardinality(ML!Of(o)') \in Nat
    BY <2>1, <2>2, FS_Subset, FS_CardinalityType DEF ListTypes
  <2> QED
    BY <2>1, <2>3, CardinalitiesAreNatural
<1>1. ASSUME monitors' \subseteq monitors PROVE Cardinality(ML!Of(o)') <= Cardinality(ML!Of(o))
  <2>1. ML!Of(o)' \subseteq ML!Of(o)
    BY <1>1 DEF ML!Of
  <2> QED
    BY <1>0, <2>1, FS_Subset
<1>2. ASSUME NEW r \in Requests, ML!LockSync(r) \/ ML!LockOwner(r) \/ ML!GiveUp(r) \/ ML!LookForSymbol(r)
      PROVE  Cardinality(ML!Of(o)') + Cardinality(Creating(o)') <= Quota + outlived'
  <2>1. monitors' = monitors /\ outlived' = outlived
    BY <1>2 DEF ML!LockSync, ML!LockOwner, ML!Take, ML!GiveUp, ML!LookForSymbol
  <2>2. \A q \in Requests : adding'[q].at = "create" /\ adding'[q].new.owner = o => adding'[q] = adding[q]
    BY <1>0, <1>2, RequestMoves DEF Moves
  <2>3. Creating(o)' \subseteq Creating(o)
    BY <2>2 DEF Creating
  <2> QED
    BY <1>0, <1>1, <2>1, <2>3, QuotaOfFewer
<1>3. ASSUME NEW r \in Requests, ML!CountSymbols(r)
      PROVE  Cardinality(ML!Of(o)') + Cardinality(Creating(o)') <= Quota + outlived'
  <2>1. monitors' = monitors /\ outlived' = outlived /\ ML!Of(o)' = ML!Of(o)
    BY <1>3 DEF ML!CountSymbols, ML!Of
  <2>2. /\ adding[r].at = "count" /\ adding'[r].new = adding[r].new
        /\ \A q \in Requests : q # r => adding'[q] = adding[q]
        /\ adding'[r].at = "create" => ~(Cardinality(ML!Of(adding[r].new.owner)) >= Quota)
    BY <1>0, <1>3, RequestMoves DEF Moves
  <2>3. CASE adding'[r].at = "create" /\ adding[r].new.owner = o
    <3>1. Creating(o)' \subseteq Lockless \cup {lock[o]}
      BY <2>2, <2>3 DEF Creating, Lockless
    <3>2. IsFiniteSet(Lockless \cup {lock[o]}) /\ Cardinality(Lockless \cup {lock[o]}) <= Cardinality(Lockless) + 1
          /\ Cardinality(Lockless) \in Nat
      <4>1. IsFiniteSet(Lockless) /\ Cardinality(Lockless) \in Nat
        BY <1>0, CardinalitiesAreNatural
      <4> QED
        BY <4>1, FS_AddElement
    <3>3. /\ Cardinality(Creating(o)') <= Cardinality(Lockless \cup {lock[o]})
          /\ Cardinality(Creating(o)') \in Nat /\ Cardinality(Lockless \cup {lock[o]}) \in Nat
      BY <3>1, <3>2, FS_Subset, FS_CardinalityType
    <3>4. Cardinality(ML!Of(o)) < Quota
      BY <1>0, <2>2, <2>3 DEF ML!ListAssumption
    <3> QED
      BY <1>0, <2>1, <3>2, <3>3, <3>4 DEF ListInv, LocklessPaid, ListTypes, ML!ListAssumption
  <2>4. CASE ~(adding'[r].at = "create" /\ adding[r].new.owner = o)
    <3>1. Creating(o)' \subseteq Creating(o)
      BY <2>2, <2>4 DEF Creating
    <3> QED
      BY <1>0, <1>1, <2>1, <3>1, QuotaOfFewer
  <2> QED
    BY <2>3, <2>4
<1>4. ASSUME NEW r \in Requests, ML!CreateRow(r)
      PROVE  Cardinality(ML!Of(o)') + Cardinality(Creating(o)') <= Quota + outlived'
  <2>1. /\ adding[r].at = "create" /\ adding'[r].at = "release"
        /\ \A q \in Requests : q # r => adding'[q] = adding[q]
    BY <1>0, <1>4, RequestMoves DEF Moves
  <2>2. Creating(o)' = Creating(o) \ {r}
    BY <2>1 DEF Creating
  <2>3. /\ outlived' = outlived
        /\ monitors' \in {monitors, monitors \cup {ML!Row(lastId', adding[r].new)}}
    BY <1>4 DEF ML!CreateRow
  <2>4. CASE adding[r].new.owner = o
    <3>1. Cardinality(Creating(o)') = Cardinality(Creating(o)) - 1
      <4>1. r \in Creating(o)
        BY <2>1, <2>4 DEF Creating
      <4>2. IsFiniteSet(Creating(o))
        BY <1>0
      <4>3. Cardinality(Creating(o) \ {r}) = Cardinality(Creating(o)) - 1
        BY <4>1, <4>2, FS_RemoveElement
      <4> QED
        BY <2>2, <4>3
    <3>2. ML!Of(o)' \subseteq ML!Of(o) \cup {ML!Row(lastId', adding[r].new)}
      BY <2>3 DEF ML!Of
    <3>3. /\ IsFiniteSet(ML!Of(o) \cup {ML!Row(lastId', adding[r].new)})
          /\ Cardinality(ML!Of(o) \cup {ML!Row(lastId', adding[r].new)}) <= Cardinality(ML!Of(o)) + 1
      BY <1>0, FS_AddElement
    <3>4. Cardinality(ML!Of(o)') <= Cardinality(ML!Of(o) \cup {ML!Row(lastId', adding[r].new)})
          /\ Cardinality(ML!Of(o) \cup {ML!Row(lastId', adding[r].new)}) \in Nat
      BY <3>2, <3>3, FS_Subset, FS_CardinalityType
    <3>5. Cardinality(ML!Of(o)) + Cardinality(Creating(o)) <= Quota + outlived
      BY DEF ListInv, QuotaAhead
    <3> QED
      <4>1. outlived \in Nat /\ Quota \in Nat
        BY <1>0 DEF ListTypes, ML!ListAssumption
      <4>2. Cardinality(ML!Of(o)') <= Cardinality(ML!Of(o)) + 1
        BY <1>0, <3>3, <3>4
      <4> QED
        BY <1>0, <2>3, <3>1, <3>5, <4>1, <4>2
  <2>5. CASE adding[r].new.owner # o
    <3>1. ML!Of(o)' = ML!Of(o)
      BY <2>3, <2>5 DEF ML!Of, ML!Row
    <3>2. Creating(o)' \subseteq Creating(o)
      BY <2>2
    <3> QED
      <4>1. Cardinality(ML!Of(o)') <= Cardinality(ML!Of(o))
        BY <1>0, <3>1
      <4> QED
        BY <1>0, <2>3, <3>2, <4>1, QuotaOfFewer
  <2> QED
    BY <2>4, <2>5
<1>5. ASSUME NEW r \in Requests, Begins(r)
      PROVE  Cardinality(ML!Of(o)') + Cardinality(Creating(o)') <= Quota + outlived'
  <2>1. Creating(o)' \subseteq Creating(o)
    BY <1>0, <1>5, RequestBegins DEF Creating
  <2> QED
    BY <1>0, <1>1, <1>5, <2>1, RequestBegins, QuotaOfFewer
<1>6. ASSUME NEW now \in SUBSET ListSymbols, ML!SpotSync(now)
      PROVE  Cardinality(ML!Of(o)') + Cardinality(Creating(o)') <= Quota + outlived'
  <2>1. Creating(o)' = Creating(o) /\ outlived' = outlived
    BY <1>6 DEF ML!SpotSync, Creating
  <2> QED
    BY <1>0, <1>6, <2>1, SyncPauses, QuotaOfFewer
<1>7. ASSUME NEW l \in ML!Locks, ML!LeaseEnds(l)
      PROVE  Cardinality(ML!Of(o)') + Cardinality(Creating(o)') <= Quota + outlived'
  <2>1. Creating(o)' = Creating(o) /\ monitors' = monitors /\ outlived' \in {outlived, outlived + 1}
    BY <1>7 DEF ML!LeaseEnds, Creating
  <2> QED
    BY <1>0, <1>1, <2>1, QuotaOfFewer
<1>8. ASSUME ML!Restart
      PROVE  Cardinality(ML!Of(o)') + Cardinality(Creating(o)') <= Quota + outlived'
  <2>1. Creating(o)' = {} /\ monitors' = monitors /\ outlived' = outlived
    BY <1>8 DEF ML!Restart, Creating, ML!NoRequest
  <2> QED
    BY <1>0, <1>1, <2>1, QuotaOfFewer
<1>9. ASSUME UNCHANGED ML!listVars
      PROVE  Cardinality(ML!Of(o)') + Cardinality(Creating(o)') <= Quota + outlived'
  <2>1. Creating(o)' = Creating(o) /\ monitors' = monitors /\ outlived' = outlived
    BY <1>9 DEF ML!listVars, Creating
  <2> QED
    BY <1>0, <1>1, <2>1, QuotaOfFewer
<1> QED
  BY <1>2, <1>3, <1>4, <1>5, <1>6, <1>7, <1>8, <1>9, NextSplits DEF Moves

LEMMA OneStays ==
  ASSUME ML!ListAssumption, ListInv, [ML!Next]_ML!listVars
  PROVE  ML!OneMonitorEach'
<1>0. ListTypes /\ ML!OneMonitorEach
  BY DEF ListInv
<1>1. ASSUME monitors' \subseteq monitors PROVE ML!OneMonitorEach'
  BY <1>0, <1>1 DEF ML!OneMonitorEach
<1>2. ASSUME NEW r \in Requests, ML!CreateRow(r) PROVE ML!OneMonitorEach'
  <2> DEFINE new == adding[r].new
             found == ML!Row(lastId', new)
  <2>1. CASE \E m \in ML!Of(new.owner) : m.symbol = new.symbol
    BY <1>1, <1>2, <2>1 DEF ML!CreateRow
  <2>2. CASE ~\E m \in ML!Of(new.owner) : m.symbol = new.symbol
    <3>1. monitors' = monitors \cup {found}
      BY <1>2, <2>2 DEF ML!CreateRow
    <3>2. found.owner = new.owner /\ found.symbol = new.symbol
      BY DEF ML!Row
    <3>3. \A m \in monitors : ~(m.owner = found.owner /\ m.symbol = found.symbol)
      BY <2>2, <3>2 DEF ML!Of
    <3> HIDE DEF found
    <3> QED
      BY <1>0, <3>1, <3>3 DEF ML!OneMonitorEach
  <2> QED
    BY <2>1, <2>2
<1>3. ASSUME NEW r \in Requests, ML!LockSync(r) \/ ML!LockOwner(r) \/ ML!GiveUp(r) \/ ML!LookForSymbol(r) \/ ML!CountSymbols(r)
      PROVE  ML!OneMonitorEach'
  BY <1>1, <1>3 DEF ML!LockSync, ML!LockOwner, ML!Take, ML!GiveUp, ML!LookForSymbol, ML!CountSymbols
<1>4. ASSUME NEW r \in Requests, Begins(r) PROVE ML!OneMonitorEach'
  BY <1>0, <1>1, <1>4, RequestBegins
<1>5. ASSUME NEW now \in SUBSET ListSymbols, ML!SpotSync(now) PROVE ML!OneMonitorEach'
  <2> SUFFICES ASSUME NEW m \in monitors', NEW n \in monitors', m.owner = n.owner, m.symbol = n.symbol
               PROVE  m = n
    BY DEF ML!OneMonitorEach
  <2> DEFINE Paused(k) == IF k.sell /\ k.symbol \notin now THEN [k EXCEPT !.valid = FALSE] ELSE k
  <2>1. PICK k \in monitors : m.owner = k.owner /\ m.symbol = k.symbol /\ m = Paused(k)
    BY <1>0, <1>5, SyncPauses
  <2>2. PICK l \in monitors : n.owner = l.owner /\ n.symbol = l.symbol /\ n = Paused(l)
    BY <1>0, <1>5, SyncPauses
  <2> HIDE DEF Paused
  <2>3. k = l
    BY <1>0, <2>1, <2>2 DEF ML!OneMonitorEach
  <2> QED
    BY <2>1, <2>2, <2>3
<1>6. ASSUME NEW l \in ML!Locks, ML!LeaseEnds(l) PROVE ML!OneMonitorEach'
  BY <1>1, <1>6 DEF ML!LeaseEnds
<1>7. ASSUME ML!Restart \/ UNCHANGED ML!listVars PROVE ML!OneMonitorEach'
  BY <1>1, <1>7 DEF ML!Restart, ML!listVars
<1> QED
  BY <1>2, <1>3, <1>4, <1>5, <1>6, <1>7, NextSplits DEF Moves

(* A request for a sell monitor keeps the lock of the synchronisation from *)
(* "lock" on.                                                              *)
LEMMA SellsStay ==
  ASSUME ML!ListAssumption, ListInv, [ML!Next]_ML!listVars
  PROVE  SellsLocked' /\ ML!AddedOnlyIfHeld'
<1>0. ListTypes /\ SellsLocked /\ ML!AddedOnlyIfHeld /\ ML!Sync \in ML!Locks
  BY DEF ListInv, ML!Locks
<1>1. ASSUME NEW r \in Requests, Moves(r) PROVE SellsLocked' /\ ML!AddedOnlyIfHeld'
  <2>1. /\ held' = held /\ outlived' = outlived
        /\ lock' = lock \/ \E l \in ML!Locks : lock[l] = ML!Free /\ lock' = [lock EXCEPT ![l] = r]
    <3>1. CASE ML!LockOwner(r)
      <4>1. adding[r].new.owner \in ML!Locks
        BY <1>0, <1>1, RequestMoves DEF ML!Locks, ListAdding, ListAsked
      <4> QED
        BY <3>1, <4>1, Zenon DEF ML!LockOwner, ML!Take
    <3>2. CASE ML!LockSync(r)
      BY <1>0, <3>2, Zenon DEF ML!LockSync, ML!Take
    <3>3. CASE ML!GiveUp(r) \/ ML!LookForSymbol(r) \/ ML!CountSymbols(r) \/ ML!CreateRow(r)
      BY <3>3, Zenon DEF ML!GiveUp, ML!LookForSymbol, ML!CountSymbols, ML!CreateRow
    <3> QED
      BY <1>1, <3>1, <3>2, <3>3 DEF Moves
  <2>2. \A q \in Requests : lock[ML!Sync] = q => lock'[ML!Sync] = q
    BY <1>0, <2>1 DEF ListTypes, ML!ListAssumption
  <2>3. ML!LockSync(r) => lock'[ML!Sync] = r
    BY <1>0 DEF ML!LockSync, ML!Take, ListTypes
  <2>4. SellsLocked'
    <3> SUFFICES ASSUME outlived' = 0, NEW q \in Requests,
                        adding'[q].at \in {"lock", "look", "count", "create"}, adding'[q].new.sell
                 PROVE  /\ lock'[ML!Sync] = q
                        /\ adding'[q].at \in {"count", "create"} => adding'[q].new.symbol \in held'
      BY DEF SellsLocked
    <3>1. CASE q # r
      <4>1. adding'[q] = adding[q]
        BY <1>0, <1>1, <3>1, RequestMoves
      <4> QED
        BY <1>0, <2>1, <2>2, <4>1 DEF SellsLocked
    <3>2. CASE q = r
      <4>1. /\ adding'[r].new = adding[r].new
            /\ ML!LockSync(r) \/ adding[r].at \in {"lock", "look", "count", "create"}
            /\ adding'[r].at \in {"count", "create"} =>
                  adding[r].at \in {"count", "create"} \/ adding[r].new.symbol \in held
        BY <1>0, <1>1, <3>2, RequestMoves DEF Moves
      <4> QED
        BY <1>0, <2>1, <2>2, <2>3, <3>2, <4>1 DEF SellsLocked
    <3> QED
      BY <3>1, <3>2
  <2>5. ML!AddedOnlyIfHeld'
    <3>1. CASE ML!CreateRow(r)
      <4>1. adding[r].at = "create"
        BY <1>0, <1>1, <3>1, RequestMoves
      <4>2. \/ monitors' = monitors
            \/ monitors' = monitors \cup {ML!Row(lastId', adding[r].new)}
        BY <3>1 DEF ML!CreateRow
      <4>3. outlived = 0 /\ ML!Row(lastId', adding[r].new).sell => ML!Row(lastId', adding[r].new).symbol \in held
        BY <1>0, <4>1 DEF SellsLocked, ML!Row
      <4> HIDE DEF ML!Row
      <4> QED
        BY <1>0, <2>1, <4>2, <4>3 DEF ML!AddedOnlyIfHeld
    <3>2. CASE ~ML!CreateRow(r)
      <4>1. monitors' = monitors
        BY <1>1, <3>2, Zenon DEF Moves, ML!LockSync, ML!LockOwner, ML!Take, ML!GiveUp, ML!LookForSymbol, ML!CountSymbols
      <4> QED
        BY <1>0, <2>1, <4>1 DEF ML!AddedOnlyIfHeld
    <3> QED
      BY <3>1, <3>2
  <2> QED
    BY <2>4, <2>5
<1>2. ASSUME NEW r \in Requests, Begins(r) PROVE SellsLocked' /\ ML!AddedOnlyIfHeld'
  <2>1. ML!AddedOnlyIfHeld'
    BY <1>0, <1>2, RequestBegins DEF ML!AddedOnlyIfHeld
  <2>2. SellsLocked'
    <3> SUFFICES ASSUME outlived' = 0, NEW q \in Requests,
                        adding'[q].at \in {"lock", "look", "count", "create"}, adding'[q].new.sell
                 PROVE  /\ lock'[ML!Sync] = q
                        /\ adding'[q].at \in {"count", "create"} => adding'[q].new.symbol \in held'
      BY DEF SellsLocked
    <3>1. q # r
      BY <1>0, <1>2, RequestBegins
    <3>2. adding'[q] = adding[q] /\ held' = held /\ outlived' = outlived /\ (lock'[ML!Sync] = lock[ML!Sync] \/ lock[ML!Sync] = r)
      BY <1>0, <1>2, <3>1, RequestBegins
    <3> QED
      BY <1>0, <3>1, <3>2 DEF SellsLocked
  <2> QED
    BY <2>1, <2>2
<1>3. ASSUME NEW now \in SUBSET ListSymbols, ML!SpotSync(now) PROVE SellsLocked' /\ ML!AddedOnlyIfHeld'
  <2>1. UNCHANGED <<lock, adding, outlived>> /\ held' = now /\ lock[ML!Sync] = ML!Free
    BY <1>3 DEF ML!SpotSync
  <2>2. ML!AddedOnlyIfHeld'
    BY <1>0, <1>3, <2>1, SyncPauses DEF ML!AddedOnlyIfHeld
  <2>3. SellsLocked'
    BY <1>0, <2>1 DEF SellsLocked, ML!ListAssumption
  <2> QED
    BY <2>2, <2>3
<1>4. ASSUME NEW l \in ML!Locks, ML!LeaseEnds(l) PROVE SellsLocked' /\ ML!AddedOnlyIfHeld'
  <2>1. UNCHANGED <<monitors, held, adding>> /\ lock' = [lock EXCEPT ![l] = ML!Free]
    BY <1>4 DEF ML!LeaseEnds
  <2>2. CASE lock[l] = ML!Gone
    BY <1>0, <1>4, <2>1, <2>2 DEF ML!LeaseEnds, SellsLocked, ML!AddedOnlyIfHeld, ListTypes, ML!ListAssumption
  <2>3. CASE lock[l] # ML!Gone
    <3>1. outlived' = outlived + 1 /\ outlived' # 0
      BY <1>0, <1>4, <2>3 DEF ML!LeaseEnds, ListTypes
    <3> QED
      BY <3>1 DEF SellsLocked, ML!AddedOnlyIfHeld
  <2> QED
    BY <2>2, <2>3
<1>5. CASE ML!Restart
  <2>1. /\ UNCHANGED <<monitors, held, outlived>>
        /\ \A r \in Requests : adding'[r].at = "idle"
    BY <1>5 DEF ML!Restart, ML!NoRequest
  <2> QED
    BY <1>0, <2>1 DEF SellsLocked, ML!AddedOnlyIfHeld
<1>6. CASE UNCHANGED ML!listVars
  BY <1>0, <1>6 DEF SellsLocked, ML!AddedOnlyIfHeld, ML!listVars
<1> QED
  BY <1>1, <1>2, <1>3, <1>4, <1>5, <1>6, NextSplits

LEMMA ListStarts == ML!ListAssumption /\ ML!Init => ListInv
<1> SUFFICES ASSUME ML!ListAssumption, ML!Init PROVE ListInv
  OBVIOUS
<1>1. ListTypes
  BY FS_EmptySet DEF ML!Init, ListTypes
<1>2. Lockless = {} /\ \A o : ML!Of(o) = {} /\ Creating(o) = {}
  BY DEF ML!Init, ML!NoRequest, Lockless, ML!Of, Creating
<1>3. LocklessPaid /\ QuotaAhead
  <2>1. outlived \in Nat /\ Quota \in Nat
    BY <1>1 DEF ListTypes, ML!ListAssumption
  <2>2. Cardinality(Lockless) = 0 /\ \A o : Cardinality(ML!Of(o)) = 0 /\ Cardinality(Creating(o)) = 0
    BY <1>2, FS_EmptySet, SameOperators
  <2> QED
    BY <2>1, <2>2 DEF LocklessPaid, QuotaAhead
<1>4. ML!OneMonitorEach /\ SellsLocked /\ ML!AddedOnlyIfHeld
  BY DEF ML!Init, ML!NoRequest, ML!OneMonitorEach, SellsLocked, ML!AddedOnlyIfHeld
<1> QED
  BY <1>1, <1>3, <1>4 DEF ListInv

(* Bounds of the list; ids are those of rows created so far.               *)
ListBounds ==
    /\ lastId <= MaxIds /\ outlived <= MaxLost /\ held \subseteq ListSymbols
    /\ \A m \in monitors : m.id \in 1 .. lastId

LEMMA ListBoundsStay ==
  ASSUME ML!ListAssumption, ListTypes, ListBounds, [ML!Next]_ML!listVars
  PROVE  ListBounds'
<1>0. lastId \in Nat /\ outlived \in Nat /\ MaxIds \in Nat /\ MaxLost \in Nat
  BY DEF ListTypes, ML!ListAssumption
<1>1. ASSUME NEW r \in Requests, ML!CreateRow(r) PROVE ListBounds'
  <2>1. held' = held /\ outlived' = outlived
    BY <1>1 DEF ML!CreateRow
  <2>2. CASE monitors' = monitors /\ lastId' = lastId
    BY <2>1, <2>2 DEF ListBounds
  <2>3. CASE lastId < MaxIds /\ lastId' = lastId + 1 /\ monitors' = monitors \cup {ML!Row(lastId', adding[r].new)}
    <3>1. ML!Row(lastId', adding[r].new).id = lastId'
      BY DEF ML!Row
    <3>2. lastId' \in 1 .. lastId' /\ lastId' <= MaxIds /\ 1 .. lastId \subseteq 1 .. lastId'
      BY <1>0, <2>3
    <3> QED
      BY <2>1, <2>3, <3>1, <3>2 DEF ListBounds
  <2> QED
    BY <1>1, <2>2, <2>3 DEF ML!CreateRow
<1>2. ASSUME NEW now \in SUBSET ListSymbols, ML!SpotSync(now) PROVE ListBounds'
  <2>1. \A n \in monitors' : \E m \in monitors : n.id = m.id
    BY <1>2, SyncPauses
  <2>2. held' = now /\ lastId' = lastId /\ outlived' = outlived
    BY <1>2 DEF ML!SpotSync
  <2> QED
    BY <2>1, <2>2 DEF ListBounds
<1>3. ASSUME NEW l \in ML!Locks, ML!LeaseEnds(l) PROVE ListBounds'
  <2>1. monitors' = monitors /\ lastId' = lastId /\ held' = held /\ outlived' \in {outlived, outlived + 1}
        /\ (outlived' # outlived => outlived < MaxLost)
    BY <1>3 DEF ML!LeaseEnds
  <2> QED
    BY <1>0, <2>1 DEF ListBounds
<1>4. ASSUME NEW r \in Requests, Begins(r) PROVE ListBounds'
  <2>1. monitors' \subseteq monitors /\ lastId' = lastId /\ held' = held /\ outlived' = outlived
    BY <1>4 DEF Begins, ML!AskToAdd, ML!AskToDelete, ML!Release, ML!DeleteRow
  <2> QED
    BY <2>1 DEF ListBounds
<1>5. ASSUME NEW r \in Requests, Moves(r), ~ML!CreateRow(r) PROVE ListBounds'
  <2>1. monitors' = monitors /\ lastId' = lastId /\ held' = held /\ outlived' = outlived
    BY <1>5 DEF Moves, ML!LockSync, ML!LockOwner, ML!Take, ML!GiveUp, ML!LookForSymbol, ML!CountSymbols
  <2> QED
    BY <2>1 DEF ListBounds
<1>6. CASE ML!Restart \/ UNCHANGED ML!listVars
  BY <1>6 DEF ML!Restart, ML!listVars, ListBounds
<1> QED
  BY <1>1, <1>2, <1>3, <1>4, <1>5, <1>6, NextSplits

LEMMA ListTyped ==
  ASSUME ML!ListAssumption, ListTypes, ListBounds
  PROVE  ML!TypeOK
<1>1. lastId \in 0 .. MaxIds /\ outlived \in 0 .. MaxLost
  BY DEF ListTypes, ListBounds, ML!ListAssumption
<1>2. monitors \subseteq [id : 1 .. lastId, owner : Owners, symbol : ListSymbols, sell : BOOLEAN, valid : BOOLEAN]
  BY DEF ListTypes, ListBounds, Monitor
<1>3. \A r \in Requests : adding[r].at \in {"idle", "sync", "lock", "look", "count", "create", "release", "delete"}
  BY DEF ListTypes, ML!NoRequest, ListAdding, Deleting
<1> QED
  BY <1>1, <1>2, <1>3 DEF ML!TypeOK, ListTypes, ListBounds

(* Requests that overlap, whose leases end under them and which a restart  *)
(* cuts off, keep the quota, one monitor for each symbol, and no active    *)
(* sell monitor without its position (market.py:290-314).                  *)
THEOREM ListKept == ASSUME ML!ListAssumption PROVE ML!Spec => [](ML!MonitorsKept /\ ML!TypeOK)
<1>1. ML!Init => ListInv
  BY ListStarts
<1>2. ListInv /\ [ML!Next]_ML!listVars => ListInv'
  BY ListTypesKept, LocklessKept, QuotaStays, OneStays, SellsStay DEF ListInv
<1>3. ListInv => ML!MonitorsKept
  <2> SUFFICES ASSUME ListInv PROVE ML!MonitorsKept
    OBVIOUS
  <2>1. ML!QuotaKept
    BY CardinalitiesAreNatural, SameOperators DEF ListInv, QuotaAhead, ML!QuotaKept, ListTypes, ML!ListAssumption
  <2> QED
    BY <2>1 DEF ListInv, ML!MonitorsKept
<1>4. ML!Init => ListBounds
  BY DEF ML!Init, ListBounds, ML!ListAssumption
<1>5. ListInv /\ ListBounds /\ [ML!Next]_ML!listVars => ListBounds'
  BY ListBoundsStay DEF ListInv
<1>6. ListInv /\ ListBounds => ML!TypeOK
  BY ListTyped DEF ListInv
<1> QED
  BY <1>1, <1>2, <1>3, <1>4, <1>5, <1>6, PTL DEF ML!Spec

-----------------------------------------------------------------------------
(***************************************************************************)
(* The limiters (RateLimit).                                               *)
(***************************************************************************)

RateTypes ==
    /\ counter \in {"api", "mail"}
    /\ count \in Nat /\ ttl \in {RL!Forever} \cup 0 .. CallWindow /\ (ttl = 0 <=> count = 0)
    /\ sender \in [Senders -> {RL!NotAsking} \cup Nat]
    /\ admitted \in Nat /\ (count = 0 => admitted = 0) /\ quiet \in 0 .. CallWindow + 1
    /\ slipped \in BOOLEAN /\ redisFailures \in 0 .. MaxFailures
    /\ admitted <= MaxAdmitted /\ count <= 2 * admitted

(* While no key slipped, it ends with its window, counted from the call    *)
(* that opened it, which is not after the last one that was let through.   *)
EndsWithWindow == ~slipped => ttl # RL!Forever /\ (ttl > 0 => ttl + quiet <= CallWindow)

(* The web process asks for one request at a time, and the key is then     *)
(* what was read or has expired.                                           *)
OneRequest ==
    counter = "api" =>
        /\ \A s, t \in Senders : sender[s] # RL!NotAsking /\ sender[t] # RL!NotAsking => s = t
        /\ \A s \in Senders : sender[s] # RL!NotAsking => sender[s] <= CallLimit /\ count \in {0, sender[s]}
        /\ ~slipped => admitted <= count /\ admitted <= CallLimit + 1

(* The mail consumers that read no key will start a window each, those     *)
(* that read one will add a call to the window there is.                   *)
Starting == {s \in Senders : sender[s] = 0}
Adding == {s \in Senders : sender[s] > 0}

(* Twice the calls that z starts can let through.                          *)
Twice(n, z) == z * (2 * CallLimit + 2 * n - 1 - z)

WindowsBounded(n, z, p, a, c) ==
    /\ 2 * a + 2 * p + Twice(n, z) <= Twice(n, n)
    /\ c > 0 => z < n /\ 2 * a + Twice(n, z + 1) <= Twice(n, n) + 2 * c

MailsBounded ==
    counter = "mail" /\ ~slipped =>
        WindowsBounded(Cardinality(Senders), Cardinality(Starting), Cardinality(Adding), admitted, count)

RateInv == RateTypes /\ RL!CountsWhatItAdmits /\ EndsWithWindow /\ OneRequest /\ MailsBounded

(* What a step does to the senders, in numbers.                            *)
LEMMA SendersCounted ==
  ASSUME RL!RateAssumption, RateTypes
  PROVE  /\ IsFiniteSet(Starting) /\ IsFiniteSet(Adding)
         /\ Cardinality(Senders) \in Nat /\ Cardinality(Starting) \in Nat /\ Cardinality(Adding) \in Nat
         /\ Cardinality(Starting) + Cardinality(Adding) <= Cardinality(Senders)
<1>1. Starting \subseteq Senders /\ Adding \subseteq Senders /\ Starting \cap Adding = {}
  BY DEF Starting, Adding, RateTypes, RL!NotAsking
<1>2. IsFiniteSet(Starting) /\ IsFiniteSet(Adding) /\ IsFiniteSet(Senders)
  BY <1>1, FS_Subset, SameOperators DEF RL!RateAssumption
<1>3. Cardinality(Senders) \in Nat /\ Cardinality(Starting) \in Nat /\ Cardinality(Adding) \in Nat
  BY <1>2, FS_CardinalityType
<1>4. Cardinality(Starting \cup Adding) = Cardinality(Starting) + Cardinality(Adding) - Cardinality(Starting \cap Adding)
  BY <1>2, FS_Union
<1>5. Cardinality(Starting \cap Adding) = 0
  BY <1>1, FS_EmptySet
<1>6. Cardinality(Starting \cup Adding) <= Cardinality(Senders)
  <2>1. Starting \cup Adding \subseteq Senders
    BY <1>1
  <2> QED
    BY <1>2, <2>1, FS_Subset
<1>7. Cardinality(Starting) + Cardinality(Adding) <= Cardinality(Senders)
  BY <1>3, <1>4, <1>5, <1>6
<1> QED
  BY <1>2, <1>3, <1>7

LEMMA SomeoneIdle ==
  ASSUME RL!RateAssumption, RateTypes, NEW s \in Senders, sender[s] = RL!NotAsking
  PROVE  Cardinality(Starting) + Cardinality(Adding) + 1 <= Cardinality(Senders)
<1>1. /\ Starting \cup Adding \subseteq Senders \ {s}
      /\ Starting \cap Adding = {} /\ IsFiniteSet(Senders)
  BY SameOperators DEF Starting, Adding, RateTypes, RL!RateAssumption, RL!NotAsking
<1>2. IsFiniteSet(Senders \ {s}) /\ Cardinality(Senders \ {s}) = Cardinality(Senders) - 1
  BY <1>1, FS_RemoveElement
<1>3. Cardinality(Starting \cup Adding) <= Cardinality(Senders \ {s})
  BY <1>1, <1>2, FS_Subset
<1>4. Cardinality(Starting \cup Adding) = Cardinality(Starting) + Cardinality(Adding) - Cardinality(Starting \cap Adding)
  BY SendersCounted, FS_Union
<1>5. Cardinality(Starting \cap Adding) = 0
  BY <1>1, FS_EmptySet
<1> QED
  BY <1>2, <1>3, <1>4, <1>5, SendersCounted

LEMMA SenderAsks ==
  ASSUME RL!RateAssumption, RateTypes, NEW s \in Senders, NEW n \in Nat, sender[s] = RL!NotAsking,
         sender' = [sender EXCEPT ![s] = n]
  PROVE  /\ n = 0 => Cardinality(Starting') = Cardinality(Starting) + 1 /\ Adding' = Adding
         /\ n > 0 => Cardinality(Adding') = Cardinality(Adding) + 1 /\ Starting' = Starting
<1>1. s \notin Starting /\ s \notin Adding
  BY DEF Starting, Adding, RL!NotAsking
<1>2. n = 0 => Starting' = Starting \cup {s} /\ Adding' = Adding
  BY <1>1 DEF Starting, Adding, RateTypes
<1>3. n > 0 => Adding' = Adding \cup {s} /\ Starting' = Starting
  BY <1>1 DEF Starting, Adding, RateTypes
<1> QED
  BY <1>1, <1>2, <1>3, SendersCounted, FS_AddElement

LEMMA SenderDone ==
  ASSUME RL!RateAssumption, RateTypes, NEW s \in Senders, sender' = [sender EXCEPT ![s] = RL!NotAsking]
  PROVE  /\ sender[s] = 0 => /\ Cardinality(Starting') = Cardinality(Starting) - 1 /\ Adding' = Adding
                             /\ Cardinality(Starting) # 0
         /\ sender[s] > 0 => Cardinality(Adding') = Cardinality(Adding) - 1 /\ Starting' = Starting
         /\ sender[s] = RL!NotAsking => Starting' = Starting /\ Adding' = Adding
<1>1. sender[s] = 0 => s \in Starting /\ Starting' = Starting \ {s} /\ Adding' = Adding
  BY DEF Starting, Adding, RateTypes, RL!NotAsking
<1>2. sender[s] > 0 => s \in Adding /\ Adding' = Adding \ {s} /\ Starting' = Starting
  BY DEF Starting, Adding, RateTypes, RL!NotAsking
<1>3. sender[s] = RL!NotAsking => Starting' = Starting /\ Adding' = Adding
  BY DEF Starting, Adding, RateTypes, RL!NotAsking
<1> QED
  BY <1>1, <1>2, <1>3, SendersCounted, FS_RemoveElement, FS_EmptySet

(* The sums.                                                               *)
LEMMA OneStartMore ==
  ASSUME CallLimit \in Nat, NEW n \in Nat, NEW z \in Nat
  PROVE  Twice(n, z) \in Int /\ Twice(n, z + 1) = Twice(n, z) + 2 * (CallLimit - 1 + n - z)
  BY DEF Twice

LEMMA FewerStarts ==
  ASSUME CallLimit \in Nat \ {0}, NEW n \in Nat, NEW z \in Nat, NEW d \in Nat, n = z + d
  PROVE  Twice(n, z) + 2 * d <= Twice(n, n)
<1>1. Twice(n, n) - Twice(n, z) - 2 * d = d * (2 * CallLimit + d - 3)
  BY DEF Twice
<1>2. d * (2 * CallLimit + d - 3) >= 0
  <2>1. CASE d = 0
    BY <2>1
  <2>2. CASE d # 0
    <3> DEFINE e == 2 * CallLimit + d - 3
    <3>1. e \in Nat
      BY <2>2
    <3> HIDE DEF e
    <3>2. d * e \in Nat
      BY <3>1
    <3> QED
      BY <3>2 DEF e
  <2> QED
    BY <2>1, <2>2
<1>3. Twice(n, n) \in Int /\ Twice(n, z) \in Int
  BY DEF Twice
<1> DEFINE p == d * (2 * CallLimit + d - 3)
           a == Twice(n, n)
           b == Twice(n, z)
<1>4. a \in Int /\ b \in Int /\ p >= 0 /\ a - b - 2 * d = p
  BY <1>1, <1>2, <1>3
<1> HIDE DEF p, a, b
<1>5. b + 2 * d <= a
  BY <1>4
<1> QED
  BY <1>5 DEF a, b

(* Nobody has read a key: what the starts to come can add.                 *)
LEMMA NothingAdmitted ==
  ASSUME CallLimit \in Nat \ {0}, NEW n \in Nat, NEW z \in Nat, NEW p \in Nat, z + p <= n
  PROVE  2 * p + Twice(n, z) <= Twice(n, n)
<1>1. n - z \in Nat /\ n = z + (n - z)
  OBVIOUS
<1>2. Twice(n, z) + 2 * (n - z) <= Twice(n, n)
  BY <1>1, FewerStarts
<1>3. Twice(n, n) \in Int /\ Twice(n, z) \in Int
  BY OneStartMore
<1> QED
  BY <1>2, <1>3

(* The steps.                                                              *)
LEMMA TypesKept ==
  ASSUME RL!RateAssumption, RateTypes, [RL!Next]_RL!rateVars
  PROVE  RateTypes'
<1> USE DEF RL!RateAssumption, RL!NotAsking, RL!Forever
<1>1. ASSUME NEW s \in Senders, RL!ReadCount(s) PROVE RateTypes'
  BY <1>1 DEF RL!ReadCount, RateTypes
<1>2. ASSUME NEW s \in Senders, RL!StartWindow(s) PROVE RateTypes'
  BY <1>2 DEF RL!StartWindow, RL!Admit, RateTypes
<1>3. ASSUME NEW s \in Senders, RL!CountCall(s) PROVE RateTypes'
  BY <1>3 DEF RL!CountCall, RL!Admit, RL!Increment, RateTypes
<1>4. ASSUME NEW s \in Senders, RL!CountCallRetried(s) PROVE RateTypes'
  BY <1>4 DEF RL!CountCallRetried, RL!RedisFailure, RL!Admit, RL!Increment, RateTypes
<1>5. ASSUME NEW s \in Senders, RL!RedisFails(s) PROVE RateTypes'
  BY <1>5 DEF RL!RedisFails, RL!RedisFailure, RateTypes
<1>6. CASE RL!Tick
  BY <1>6 DEF RL!Tick, RateTypes
<1>7. CASE UNCHANGED RL!rateVars
  BY <1>7 DEF RL!rateVars, RateTypes
<1> QED
  BY <1>1, <1>2, <1>3, <1>4, <1>5, <1>6, <1>7 DEF RL!Next

LEMMA CountAndWindowKept ==
  ASSUME RL!RateAssumption, RateTypes, RL!CountsWhatItAdmits, EndsWithWindow, [RL!Next]_RL!rateVars
  PROVE  RL!CountsWhatItAdmits' /\ EndsWithWindow'
<1> USE DEF RL!RateAssumption, RL!NotAsking, RL!Forever, RL!CountsWhatItAdmits, EndsWithWindow
<1>1. ASSUME NEW s \in Senders, RL!ReadCount(s) PROVE RL!CountsWhatItAdmits' /\ EndsWithWindow'
  BY <1>1 DEF RL!ReadCount, RateTypes
<1>2. ASSUME NEW s \in Senders, RL!StartWindow(s) PROVE RL!CountsWhatItAdmits' /\ EndsWithWindow'
  BY <1>2 DEF RL!StartWindow, RL!Admit, RateTypes
<1>3. ASSUME NEW s \in Senders, RL!CountCall(s) \/ RL!CountCallRetried(s) PROVE RL!CountsWhatItAdmits' /\ EndsWithWindow'
  <2>1. /\ admitted' = admitted + 1 /\ quiet' = 0
        /\ \/ count' = count + 1 /\ redisFailures' = redisFailures
           \/ count' = count + 2 /\ redisFailures' = redisFailures + 1
        /\ count # 0 => ttl' = ttl
        /\ ~slipped' => ~slipped /\ count # 0
    BY <1>3 DEF RL!CountCall, RL!CountCallRetried, RL!RedisFailure, RL!Admit, RL!Increment, RateTypes
  <2>2. RL!CountsWhatItAdmits'
    BY <2>1 DEF RateTypes
  <2>3. EndsWithWindow'
    BY <2>1 DEF RateTypes
  <2> QED
    BY <2>2, <2>3
<1>5. ASSUME NEW s \in Senders, RL!RedisFails(s) PROVE RL!CountsWhatItAdmits' /\ EndsWithWindow'
  BY <1>5 DEF RL!RedisFails, RL!RedisFailure, RateTypes
<1>6. CASE RL!Tick
  BY <1>6 DEF RL!Tick, RateTypes
<1>7. CASE UNCHANGED RL!rateVars
  BY <1>7 DEF RL!rateVars, RateTypes
<1> QED
  BY <1>1, <1>2, <1>3, <1>5, <1>6, <1>7 DEF RL!Next

LEMMA OneRequestKept ==
  ASSUME RL!RateAssumption, RateTypes, OneRequest, [RL!Next]_RL!rateVars
  PROVE  OneRequest'
<1> USE DEF RL!RateAssumption, RL!NotAsking, RL!Forever, OneRequest
<1>1. ASSUME NEW s \in Senders, RL!ReadCount(s) PROVE OneRequest'
  BY <1>1 DEF RL!ReadCount, RL!MayAsk, RL!Full, RateTypes
<1>2. ASSUME NEW s \in Senders, RL!StartWindow(s) PROVE OneRequest'
  BY <1>2 DEF RL!StartWindow, RL!Admit, RateTypes
<1>3. ASSUME NEW s \in Senders, RL!CountCall(s) \/ RL!CountCallRetried(s) PROVE OneRequest'
  <2>1. /\ sender[s] > 0 /\ counter' = counter /\ admitted' = admitted + 1
        /\ sender' = [sender EXCEPT ![s] = RL!NotAsking]
        /\ count' = count + 1 \/ count' = count + 2
        /\ ~slipped' => ~slipped /\ count # 0
    BY <1>3 DEF RL!CountCall, RL!CountCallRetried, RL!Admit, RL!Increment, RateTypes
  <2>2. counter = "api" => \A t \in Senders : sender'[t] = RL!NotAsking
    BY <2>1 DEF RateTypes
  <2>3. counter = "api" /\ ~slipped' => admitted' <= count' /\ admitted' <= CallLimit + 1
    BY <2>1 DEF RateTypes
  <2> QED
    BY <2>1, <2>2, <2>3
<1>5. ASSUME NEW s \in Senders, RL!RedisFails(s) PROVE OneRequest'
  BY <1>5 DEF RL!RedisFails, RL!RedisFailure, RateTypes
<1>6. CASE RL!Tick
  BY <1>6 DEF RL!Tick, RateTypes
<1>7. CASE UNCHANGED RL!rateVars
  BY <1>7 DEF RL!rateVars, RateTypes
<1> QED
  BY <1>1, <1>2, <1>3, <1>5, <1>6, <1>7 DEF RL!Next

(* The arithmetic of a read, a start, a counted call and an expired key.   *)
LEMMA SumsKept ==
  ASSUME CallLimit \in Nat \ {0}, NEW n \in Nat, NEW z \in Nat, NEW p \in Nat, z + p <= n,
         NEW a \in Nat, NEW c \in Nat,
         2 * a + 2 * p + Twice(n, z) <= Twice(n, n),
         c > 0 => z < n /\ 2 * a + Twice(n, z + 1) <= Twice(n, n) + 2 * c,
         c = 0 => a = 0
  PROVE  /\ c \in 1 .. CallLimit - 1 /\ z + p + 1 <= n => 2 * a + 2 * (p + 1) + Twice(n, z) <= Twice(n, n)
         /\ z > 0 => /\ 2 * (a + 1) + 2 * p + Twice(n, z - 1) <= Twice(n, n)
                     /\ z - 1 < n /\ 2 * (a + 1) + Twice(n, z) <= Twice(n, n) + 2
<1> DEFINE t == Twice(n, z)
           u == Twice(n, z + 1)
           e == Twice(n, n)
<1>1. t \in Int /\ e \in Int /\ u = t + 2 * (CallLimit - 1 + n - z)
  BY OneStartMore
<1>2. z > 0 => /\ Twice(n, z - 1) \in Int
               /\ t = Twice(n, z - 1) + 2 * (CallLimit - 1 + n - (z - 1))
  <2> SUFFICES ASSUME z > 0
               PROVE  /\ Twice(n, z - 1) \in Int
                      /\ t = Twice(n, z - 1) + 2 * (CallLimit - 1 + n - (z - 1))
    OBVIOUS
  <2>1. z - 1 \in Nat /\ (z - 1) + 1 = z
    OBVIOUS
  <2>2. Twice(n, z - 1) \in Int /\ Twice(n, (z - 1) + 1) = Twice(n, z - 1) + 2 * (CallLimit - 1 + n - (z - 1))
    BY <2>1, OneStartMore
  <2> QED
    BY <2>1, <2>2
<1>3. 2 * a + 2 * p + t <= e /\ (c > 0 => z < n /\ 2 * a + u <= e + 2 * c)
  OBVIOUS
<1> DEFINE v == Twice(n, z - 1)
<1> HIDE DEF t, u, e, v
<1>4. c \in 1 .. CallLimit - 1 /\ z + p + 1 <= n => 2 * a + 2 * (p + 1) + t <= e
  BY <1>1, <1>3
<1>5. z > 0 => /\ v \in Int /\ t = v + 2 * (CallLimit - 1 + n - (z - 1))
  BY <1>2 DEF v
<1>6. z > 0 => 2 * (a + 1) + 2 * p + v <= e /\ z - 1 < n /\ 2 * (a + 1) + t <= e + 2
  BY <1>1, <1>3, <1>5
<1> QED
  BY <1>4, <1>6 DEF t, u, e, v

LEMMA MailsKept ==
  ASSUME RL!RateAssumption, RateTypes, MailsBounded, [RL!Next]_RL!rateVars, RateTypes'
  PROVE  MailsBounded'
<1> DEFINE n == Cardinality(Senders)
           z == Cardinality(Starting)
           p == Cardinality(Adding)
<1>0. /\ n \in Nat /\ z \in Nat /\ p \in Nat /\ z + p <= n
      /\ CallLimit \in Nat \ {0} /\ count \in Nat /\ admitted \in Nat /\ (count = 0 => admitted = 0)
      /\ Twice(n, z) \in Int /\ Twice(n, z + 1) \in Int /\ Twice(n, n) \in Int
  <2>1. n \in Nat /\ z \in Nat /\ p \in Nat /\ z + p <= n
    BY SendersCounted
  <2>2. CallLimit \in Nat \ {0} /\ count \in Nat /\ admitted \in Nat /\ (count = 0 => admitted = 0)
    BY DEF RateTypes, RL!RateAssumption
  <2> HIDE DEF n, z, p
  <2>3. Twice(n, z) \in Int /\ Twice(n, z + 1) \in Int /\ Twice(n, n) \in Int
    BY <2>1, <2>2 DEF Twice
  <2> QED
    BY <2>1, <2>2, <2>3
<1> SUFFICES ASSUME counter' = "mail", ~slipped' PROVE WindowsBounded(n, Cardinality(Starting'), Cardinality(Adding'), admitted', count')
  BY DEF MailsBounded
<1>a. counter = "mail" /\ ~slipped
  <2>1. counter' = counter
    BY DEF RL!Next, RL!ReadCount, RL!StartWindow, RL!CountCall, RL!CountCallRetried, RL!RedisFails, RL!Tick, RL!rateVars
  <2>2. slipped => slipped'
    BY DEF RL!Next, RL!ReadCount, RL!StartWindow, RL!CountCall, RL!CountCallRetried, RL!Increment, RL!RedisFails, RL!Tick, RL!rateVars
  <2> QED
    BY <2>1, <2>2
<1>b. WindowsBounded(n, z, p, admitted, count)
  BY <1>a DEF MailsBounded
<1>c. /\ count \in 1 .. CallLimit - 1 /\ z + p + 1 <= n => 2 * admitted + 2 * (p + 1) + Twice(n, z) <= Twice(n, n)
      /\ z > 0 => /\ 2 * (admitted + 1) + 2 * p + Twice(n, z - 1) <= Twice(n, n)
                  /\ z - 1 < n /\ 2 * (admitted + 1) + Twice(n, z) <= Twice(n, n) + 2
  BY <1>0, <1>b, SumsKept DEF WindowsBounded
<1> DEFINE y == Cardinality(Starting')
           q == Cardinality(Adding')
<1>1. ASSUME NEW s \in Senders, RL!ReadCount(s) PROVE WindowsBounded(n, y, q, admitted', count')
  <2>1. /\ count < CallLimit /\ sender[s] = RL!NotAsking /\ sender' = [sender EXCEPT ![s] = count]
        /\ count' = count /\ admitted' = admitted
    BY <1>0, <1>1, <1>a DEF RL!ReadCount, RL!MayAsk, RL!Full
  <2>2. z + p + 1 <= n
    BY <2>1, SomeoneIdle
  <2>3. CASE count = 0
    <3>1. y = z + 1 /\ q = p /\ admitted = 0
      BY <1>0, <2>1, <2>3, SenderAsks
    <3>2. 2 * p + Twice(n, z + 1) <= Twice(n, n)
      BY <1>0, <2>2, NothingAdmitted
    <3> QED
      BY <1>0, <2>1, <2>3, <3>1, <3>2 DEF WindowsBounded
  <2>4. CASE count > 0
    <3>1. count \in 1 .. CallLimit - 1
      BY <1>0, <2>1, <2>4
    <3>2. y = z /\ q = p + 1
      BY <1>0, <2>1, <2>4, SenderAsks
    <3> QED
      BY <1>b, <1>c, <2>1, <2>2, <3>1, <3>2 DEF WindowsBounded
  <2> QED
    BY <1>0, <2>3, <2>4
<1>2. ASSUME NEW s \in Senders, RL!StartWindow(s) PROVE WindowsBounded(n, y, q, admitted', count')
  <2>1. /\ sender[s] = 0 /\ sender' = [sender EXCEPT ![s] = RL!NotAsking]
        /\ count' = 1 /\ admitted' = admitted + 1
    BY <1>2 DEF RL!StartWindow, RL!Admit
  <2>2. y = z - 1 /\ q = p /\ z > 0
    <3>1. y = z - 1 /\ z # 0 /\ Adding' = Adding
      BY <2>1, SenderDone
    <3>2. z > 0
      BY <1>0, <3>1
    <3> QED
      BY <3>1, <3>2
  <2>3. (z - 1) + 1 = z
    BY <1>0
  <2> QED
    BY <1>c, <2>1, <2>2, <2>3 DEF WindowsBounded
<1>3. ASSUME NEW s \in Senders, RL!CountCall(s) \/ RL!CountCallRetried(s) PROVE WindowsBounded(n, y, q, admitted', count')
  <2>1. /\ sender[s] > 0 /\ sender' = [sender EXCEPT ![s] = RL!NotAsking] /\ count # 0
        /\ count' = count + 1 \/ count' = count + 2
        /\ admitted' = admitted + 1
    BY <1>3 DEF RL!CountCall, RL!CountCallRetried, RL!Admit, RL!Increment, RateTypes
  <2>2. y = z /\ q = p - 1
    BY <2>1, SenderDone
  <2> QED
    BY <1>0, <1>b, <2>1, <2>2 DEF WindowsBounded
<1>4. ASSUME NEW s \in Senders, RL!RedisFails(s) PROVE WindowsBounded(n, y, q, admitted', count')
  <2>1. sender' = [sender EXCEPT ![s] = RL!NotAsking] /\ count' = count /\ admitted' = admitted
    BY <1>4 DEF RL!RedisFails
  <2>2. CASE sender[s] = 0
    <3>1. y = z - 1 /\ q = p /\ z > 0
      <4>1. y = z - 1 /\ z # 0 /\ Adding' = Adding
        BY <2>1, <2>2, SenderDone
      <4>2. z > 0
        BY <1>0, <4>1
      <4> QED
        BY <4>1, <4>2
    <3>2. z - 1 \in Nat /\ (z - 1) + 1 = z
      BY <1>0, <3>1
    <3>3. Twice(n, z - 1) \in Int /\ Twice(n, (z - 1) + 1) = Twice(n, z - 1) + 2 * (CallLimit - 1 + n - (z - 1))
      BY <1>0, <3>2, OneStartMore
    <3>4. Twice(n, z + 1) = Twice(n, z) + 2 * (CallLimit - 1 + n - z)
      BY <1>0, OneStartMore
    <3> DEFINE t == Twice(n, z - 1)
               u == Twice(n, z)
               v == Twice(n, z + 1)
               e == Twice(n, n)
    <3>5. /\ t \in Int /\ u = t + 2 * (CallLimit - 1 + n - (z - 1)) /\ v = u + 2 * (CallLimit - 1 + n - z) /\ e \in Int
          /\ 2 * admitted + 2 * p + u <= e
          /\ count > 0 => 2 * admitted + v <= e + 2 * count
      BY <1>0, <1>b, <3>2, <3>3, <3>4 DEF WindowsBounded
    <3> HIDE DEF t, u, v, e
    <3>6. 2 * admitted + 2 * p + t <= e /\ (count > 0 => 2 * admitted + u <= e + 2 * count)
      BY <1>0, <3>1, <3>5
    <3>7. z - 1 < n
      BY <1>0
    <3> QED
      BY <2>1, <3>1, <3>2, <3>6, <3>7 DEF WindowsBounded, t, u, e
  <2>3. CASE sender[s] > 0
    <3>1. y = z /\ q = p - 1
      BY <2>1, <2>3, SenderDone
    <3> QED
      BY <1>0, <1>b, <2>1, <3>1 DEF WindowsBounded
  <2>4. CASE sender[s] = RL!NotAsking
    <3>1. y = z /\ q = p
      BY <2>1, <2>4, SenderDone
    <3> QED
      BY <1>b, <2>1, <3>1 DEF WindowsBounded
  <2> QED
    BY <2>2, <2>3, <2>4 DEF RateTypes
<1>5. CASE RL!Tick
  <2>1. y = z /\ q = p
    BY <1>5 DEF RL!Tick, Starting, Adding
  <2>2. CASE ttl = 1
    <3>1. count' = 0 /\ admitted' = 0
      BY <1>5, <2>2 DEF RL!Tick
    <3>2. 2 * p + Twice(n, z) <= Twice(n, n)
      BY <1>0, NothingAdmitted
    <3> QED
      BY <1>0, <2>1, <3>1, <3>2 DEF WindowsBounded
  <2>3. CASE ttl # 1
    BY <1>5, <1>b, <2>1, <2>3 DEF RL!Tick, WindowsBounded
  <2> QED
    BY <2>2, <2>3
<1>6. CASE UNCHANGED RL!rateVars
  <2>1. y = z /\ q = p
    BY <1>6 DEF RL!rateVars, Starting, Adding
  <2> QED
    BY <1>6, <1>b, <2>1 DEF RL!rateVars, WindowsBounded
<1> QED
  BY <1>1, <1>2, <1>3, <1>4, <1>5, <1>6 DEF RL!Next

LEMMA RateInit == ASSUME RL!RateAssumption, RL!Init PROVE RateInv
<1> USE DEF RL!Init, RL!RateAssumption, RL!NotAsking, RL!Forever
<1>1. RateTypes
  <2>1. 0 \in 0 .. CallWindow /\ 0 \in 0 .. CallWindow + 1 /\ 0 \in 0 .. MaxFailures /\ 0 <= MaxAdmitted
    OBVIOUS
  <2>2. sender \in [Senders -> {RL!NotAsking} \cup Nat]
    OBVIOUS
  <2>3. count = 0 /\ admitted = 0 /\ ttl = 0 /\ quiet = 0 /\ redisFailures = 0
    OBVIOUS
  <2>4. count <= 2 * admitted
    BY <2>3
  <2> QED
    <3>1. count \in Nat /\ admitted \in Nat /\ ttl \in {RL!Forever} \cup 0 .. CallWindow /\ quiet \in 0 .. CallWindow + 1
      BY <2>1, <2>3
    <3>2. redisFailures \in 0 .. MaxFailures /\ admitted <= MaxAdmitted /\ (ttl = 0 <=> count = 0)
      BY <2>1, <2>3
    <3> QED
      BY <2>2, <2>3, <2>4, <3>1, <3>2, Zenon DEF RateTypes
<1>3. RL!CountsWhatItAdmits /\ EndsWithWindow /\ OneRequest
  BY DEF RL!CountsWhatItAdmits, EndsWithWindow, OneRequest
<1>2. MailsBounded
  <2>1. Starting = {} /\ Adding = {}
    BY DEF Starting, Adding
  <2>2. Cardinality(Starting) = 0 /\ Cardinality(Adding) = 0
    BY <2>1, FS_EmptySet
  <2>3. 2 * 0 + Twice(Cardinality(Senders), 0) <= Twice(Cardinality(Senders), Cardinality(Senders))
    BY <1>1, SendersCounted, NothingAdmitted
  <2> QED
    BY <2>2, <2>3 DEF MailsBounded, WindowsBounded
<1> QED
  BY <1>1, <1>2, <1>3 DEF RateInv

LEMMA RateStep == ASSUME RL!RateAssumption, RateInv, [RL!Next]_RL!rateVars PROVE RateInv'
  BY TypesKept, CountAndWindowKept, OneRequestKept, MailsKept DEF RateInv

LEMMA RateImplies == ASSUME RL!RateAssumption, RateInv PROVE RL!LimitsKept /\ RL!TypeOK
<1>1. RL!CountsWhatItAdmits /\ RL!RefusalsEndUnlessSlipped
  BY DEF RateInv, RateTypes, EndsWithWindow, RL!RefusalsEndUnlessSlipped, RL!Full, RL!RateAssumption, RL!Forever
<1>2. RL!AdmittedBounded
  <2> DEFINE n == Cardinality(Senders)
             h == n * (n - 1)
             m == n * CallLimit
  <2> SUFFICES ASSUME ~slipped PROVE admitted <= IF counter = "api" THEN CallLimit + 1 ELSE m + h \div 2
    BY SameOperators DEF RL!AdmittedBounded
  <2>1. CASE counter = "api"
    BY <2>1 DEF RateInv, OneRequest
  <2>2. CASE counter = "mail"
    <3> DEFINE z == Cardinality(Starting)
               p == Cardinality(Adding)
    <3>1. n \in Nat /\ z \in Nat /\ p \in Nat /\ z + p <= n /\ CallLimit \in Nat \ {0} /\ admitted \in Nat
      BY SendersCounted DEF RateInv, RateTypes, RL!RateAssumption
    <3>2. 2 * admitted + 2 * p + Twice(n, z) <= Twice(n, n)
      BY <2>2 DEF RateInv, MailsBounded, WindowsBounded
    <3>3. Twice(n, z) \in Nat
      <4> DEFINE f == 2 * CallLimit + 2 * n - 1 - z
      <4>1. f \in Nat
        BY <3>1
      <4> HIDE DEF f
      <4>2. z * f \in Nat
        BY <3>1, <4>1
      <4> QED
        BY <4>2 DEF f, Twice
    <3>4. Twice(n, n) = 2 * m + h /\ m \in Nat /\ h \in Int
      <4> HIDE DEF n
      <4> QED
        BY <3>1 DEF Twice
    <3> DEFINE t == Twice(n, z)
    <3> HIDE DEF n, z, p, h, m, t
    <3>5. 2 * admitted <= 2 * m + h
      BY <3>1, <3>2, <3>3, <3>4 DEF t
    <3>6. admitted <= m + h \div 2
      BY <3>1, <3>4, <3>5
    <3> QED
      BY <2>2, <3>6 DEF h, m, n
  <2> QED
    BY <2>1, <2>2 DEF RateInv, RateTypes
<1>3. RL!TypeOK
  BY DEF RateInv, RateTypes, RL!TypeOK, RL!RateAssumption
<1> QED
  BY <1>1, <1>2, <1>3 DEF RL!LimitsKept

THEOREM LimitsHold == ASSUME RL!RateAssumption PROVE RL!Spec => [](RL!LimitsKept /\ RL!TypeOK)
<1>1. RL!Init => RateInv
  BY RateInit
<1>2. RateInv /\ [RL!Next]_RL!rateVars => RateInv'
  BY RateStep
<1>3. RateInv => RL!LimitsKept /\ RL!TypeOK
  BY RateImplies
<1> QED
  BY <1>1, <1>2, <1>3, PTL DEF RL!Spec

-----------------------------------------------------------------------------
(***************************************************************************)
(* Accounts, tokens and codes (Sessions).                                  *)
(***************************************************************************)

Place == {"idle", "code", "register", "create", "login"}
Code == 0 .. MaxCodes
SessionTypes ==
    /\ registered \in 0 .. 1 /\ codes \in Code
    /\ mailCode \in [code : Code, left : 0 .. CodeLife]
    /\ invite \in [code : Code, left : 0 .. CodeLife]
    /\ session \in [jti : {0} \cup SE!Token, left : 0 .. SessionLife]
    /\ tokens \in [SE!Token -> {SE!No} \cup 0 .. 2 * SessionLife + 1]
    /\ request \in [Requests -> [at : Place, code : Code, invite : Code]]
    /\ loggedOut \subseteq SE!Token
    /\ vouched \in [at : Place, code : Code, invite : Code]

(* A code and an invitation have been made, and are two.                   *)
MadeApart(code, inv) == code \in 1 .. codes /\ inv \in 1 .. codes /\ code # inv

CodesApart ==
    /\ mailCode = SE!Absent \/ mailCode.code \in 1 .. codes
    /\ invite = SE!Absent \/ invite.code \in 1 .. codes
    /\ mailCode # SE!Absent /\ invite # SE!Absent => mailCode.code # invite.code
    /\ \A r \in Requests :
          request[r].at \in {"register", "create"} => MadeApart(request[r].code, request[r].invite)
    /\ registered = 1 => MadeApart(vouched.code, vouched.invite)

(* The key in Redis is that of the last login, its token is as old as the  *)
(* key, and has not been given back; tokens are made in order.             *)
SessionOfLast ==
    /\ session.jti # 0 =>
          /\ session.left > 0
          /\ tokens[session.jti] = SessionLife - session.left
          /\ session.jti \notin loggedOut
          /\ \A u \in SE!Token : tokens[u] # SE!No => u <= session.jti
    /\ \A t \in loggedOut : tokens[t] # SE!No
    /\ \A u, t \in SE!Token : u < t /\ tokens[t] # SE!No => tokens[u] # SE!No

SessionInv == SessionTypes /\ CodesApart /\ SessionOfLast

LEMMA OlderKey ==
  ASSUME SE!SessionAssumption, SessionTypes
  PROVE  /\ \A key \in {mailCode, invite} :
               SE!Older(key, SE!Absent) \in [code : Code, left : 0 .. CodeLife]
               /\ (SE!Older(key, SE!Absent) # SE!Absent => key # SE!Absent /\ SE!Older(key, SE!Absent).code = key.code)
         /\ SE!Older(session, [jti |-> 0, left |-> 0]) \in [jti : {0} \cup SE!Token, left : 0 .. SessionLife]
<1>1. ASSUME NEW key \in [code : Code, left : 0 .. CodeLife]
      PROVE  /\ SE!Older(key, SE!Absent) \in [code : Code, left : 0 .. CodeLife]
             /\ SE!Older(key, SE!Absent) # SE!Absent => key # SE!Absent /\ SE!Older(key, SE!Absent).code = key.code
  <2>1. SE!Absent \in [code : Code, left : 0 .. CodeLife]
    BY DEF SE!Absent, Code, SE!SessionAssumption
  <2>2. key.left > 0 => /\ [key EXCEPT !.left = @ - 1] = [code |-> key.code, left |-> key.left - 1]
                        /\ key # SE!Absent
    BY DEF SE!Absent
  <2>3. key.left - 1 \in 0 .. CodeLife \/ key.left = 0
    BY DEF SE!SessionAssumption
  <2> QED
    BY <2>1, <2>2, <2>3 DEF SE!Older
<1>2. SE!Older(session, [jti |-> 0, left |-> 0]) \in [jti : {0} \cup SE!Token, left : 0 .. SessionLife]
  <2>1. session.left > 0 => [session EXCEPT !.left = @ - 1] = [jti |-> session.jti, left |-> session.left - 1]
    BY DEF SessionTypes
  <2>2. session.left - 1 \in 0 .. SessionLife \/ session.left = 0
    BY DEF SessionTypes, SE!SessionAssumption
  <2>3. [jti |-> 0, left |-> 0] \in [jti : {0} \cup SE!Token, left : 0 .. SessionLife]
    BY DEF SE!SessionAssumption
  <2> QED
    BY <2>1, <2>2, <2>3 DEF SE!Older, SessionTypes
<1> QED
  BY <1>1, <1>2 DEF SessionTypes

LEMMA SessionTypesKept ==
  ASSUME SE!SessionAssumption, SessionTypes, [SE!Next]_SE!sessionVars
  PROVE  SessionTypes'
<1> USE DEF SE!SessionAssumption
<1>0. /\ SE!Absent \in [code : Code, left : 0 .. CodeLife]
      /\ SE!Idle \in [at : Place, code : Code, invite : Code]
  BY DEF SE!Absent, SE!Idle, Place, Code
<1>1. ASSUME NEW r \in Requests, SE!AskForCode(r) PROVE SessionTypes'
  BY <1>1 DEF SE!AskForCode, SessionTypes, Place
<1>2. ASSUME NEW r \in Requests, SE!StoreCode(r) PROVE SessionTypes'
  BY <1>0, <1>2 DEF SE!StoreCode, SE!MakeCode, SessionTypes, Code
<1>3. ASSUME NEW r \in Requests, NEW c \in 1 .. MaxCodes, NEW i \in 1 .. MaxCodes, SE!Register(r, c, i)
      PROVE SessionTypes'
  BY <1>3 DEF SE!Register, SessionTypes, Place, Code
<1>4. ASSUME NEW r \in Requests, SE!LookForAccount(r) PROVE SessionTypes'
  BY <1>0, <1>4 DEF SE!LookForAccount, SessionTypes, Place
<1>5. ASSUME NEW r \in Requests, SE!CreateAccount(r) PROVE SessionTypes'
  BY <1>0, <1>5 DEF SE!CreateAccount, SessionTypes, Place
<1>6. ASSUME NEW r \in Requests, SE!LogIn(r) PROVE SessionTypes'
  BY <1>6 DEF SE!LogIn, SessionTypes, Place
<1>7. ASSUME NEW r \in Requests, SE!IssueToken(r) PROVE SessionTypes'
  BY <1>0, <1>7 DEF SE!IssueToken, SessionTypes
<1>8. CASE SE!Invite
  BY <1>8 DEF SE!Invite, SE!MakeCode, SessionTypes, Code
<1>9. ASSUME NEW t \in SE!Token, SE!LogOut(t) PROVE SessionTypes'
  BY <1>9 DEF SE!LogOut, SessionTypes
<1>10. CASE SE!Tick
  <2>1. tokens' \in [SE!Token -> {SE!No} \cup 0 .. 2 * SessionLife + 1]
    BY <1>10 DEF SE!Tick, SessionTypes, SE!No
  <2> QED
    BY <1>10, <2>1, OlderKey DEF SE!Tick, SessionTypes
<1>11. CASE UNCHANGED SE!sessionVars
  BY <1>11 DEF SE!sessionVars, SessionTypes
<1> QED
  BY <1>1, <1>2, <1>3, <1>4, <1>5, <1>6, <1>7, <1>8, <1>9, <1>10, <1>11 DEF SE!Next

LEMMA CodesKept ==
  ASSUME SE!SessionAssumption, SessionTypes, CodesApart, [SE!Next]_SE!sessionVars
  PROVE  CodesApart'
<1> USE DEF SE!SessionAssumption, CodesApart, MadeApart
<1>1. ASSUME NEW r \in Requests, SE!AskForCode(r) PROVE CodesApart'
  BY <1>1 DEF SE!AskForCode, SessionTypes
<1>2. ASSUME NEW r \in Requests, SE!StoreCode(r) PROVE CodesApart'
  BY <1>2 DEF SE!StoreCode, SE!MakeCode, SessionTypes, Code, SE!Idle
<1>3. ASSUME NEW r \in Requests, NEW c \in 1 .. MaxCodes, NEW i \in 1 .. MaxCodes, SE!Register(r, c, i)
      PROVE CodesApart'
  BY <1>3 DEF SE!Register, SessionTypes
<1>4. ASSUME NEW r \in Requests, SE!LookForAccount(r) PROVE CodesApart'
  BY <1>4 DEF SE!LookForAccount, SessionTypes, SE!Idle
<1>5. ASSUME NEW r \in Requests, SE!CreateAccount(r) PROVE CodesApart'
  BY <1>5 DEF SE!CreateAccount, SessionTypes, SE!Idle
<1>6. ASSUME NEW r \in Requests, SE!LogIn(r) PROVE CodesApart'
  BY <1>6 DEF SE!LogIn, SessionTypes
<1>7. ASSUME NEW r \in Requests, SE!IssueToken(r) PROVE CodesApart'
  BY <1>7 DEF SE!IssueToken, SessionTypes, SE!Idle
<1>8. CASE SE!Invite
  BY <1>8 DEF SE!Invite, SE!MakeCode, SessionTypes, Code
<1>9. ASSUME NEW t \in SE!Token, SE!LogOut(t) PROVE CodesApart'
  BY <1>9 DEF SE!LogOut, SessionTypes
<1>10. CASE SE!Tick
  BY <1>10, OlderKey DEF SE!Tick
<1>11. CASE UNCHANGED SE!sessionVars
  BY <1>11 DEF SE!sessionVars
<1> QED
  BY <1>1, <1>2, <1>3, <1>4, <1>5, <1>6, <1>7, <1>8, <1>9, <1>10, <1>11 DEF SE!Next

LEMMA LastKept ==
  ASSUME SE!SessionAssumption, SessionTypes, SessionOfLast, [SE!Next]_SE!sessionVars
  PROVE  SessionOfLast'
<1> USE DEF SE!SessionAssumption, SessionOfLast, SE!No
<1>1. ASSUME UNCHANGED <<session, tokens, loggedOut>> PROVE SessionOfLast'
  BY <1>1
<1>2. ASSUME NEW r \in Requests, SE!IssueToken(r) PROVE SessionOfLast'
  <2>1. PICK t \in SE!Token :
          /\ tokens[t] = SE!No /\ \A u \in SE!Token : u < t => tokens[u] # SE!No
          /\ tokens' = [tokens EXCEPT ![t] = 0]
          /\ session' = [jti |-> t, left |-> SessionLife]
    BY <1>2 DEF SE!IssueToken
  <2>2. /\ tokens'[t] = 0 /\ \A u \in SE!Token : u # t => tokens'[u] = tokens[u]
        /\ session'.jti = t /\ session'.left = SessionLife
        /\ loggedOut' = loggedOut
    BY <1>2, <2>1 DEF SE!IssueToken, SessionTypes
  <2>3. \A u \in SE!Token : tokens[u] # SE!No => u < t
    BY <2>1 DEF SE!Token
  <2> QED
    BY <2>1, <2>2, <2>3 DEF SE!Token, SessionTypes
<1>3. ASSUME NEW t \in SE!Token, SE!LogOut(t) PROVE SessionOfLast'
  BY <1>3 DEF SE!LogOut, SE!Verified, SE!Unexpired, SessionTypes
<1>4. CASE SE!Tick
  <2>1. /\ \A t \in SE!Token : tokens'[t] = IF tokens[t] \in 0 .. 2 * SessionLife THEN tokens[t] + 1 ELSE tokens[t]
        /\ loggedOut' = loggedOut
        /\ session' = SE!Older(session, [jti |-> 0, left |-> 0])
    BY <1>4 DEF SE!Tick
  <2>2. \A t \in SE!Token : tokens'[t] # SE!No <=> tokens[t] # SE!No
    BY <2>1 DEF SessionTypes
  <2>3. \/ session'.jti = 0
        \/ session'.jti = session.jti /\ session'.left = session.left - 1 /\ session.left > 1
        \/ session' = session /\ session.left = 0
    BY <2>1 DEF SE!Older, SessionTypes
  <2>4. ASSUME session'.jti # 0
        PROVE  /\ session'.left > 0
               /\ tokens'[session'.jti] = SessionLife - session'.left
               /\ session'.jti \notin loggedOut'
               /\ \A u \in SE!Token : tokens'[u] # SE!No => u <= session'.jti
    BY <2>1, <2>2, <2>3, <2>4 DEF SessionTypes
  <2> QED
    BY <2>1, <2>2, <2>4 DEF SessionTypes
<1> QED
  BY <1>1, <1>2, <1>3, <1>4
  DEF SE!Next, SE!sessionVars, SE!AskForCode, SE!StoreCode, SE!Register, SE!LookForAccount, SE!CreateAccount, SE!LogIn, SE!Invite

LEMMA SessionStart == ASSUME SE!SessionAssumption, SE!Init PROVE SessionInv
<1>1. SessionTypes
  BY DEF SE!Init, SE!SessionAssumption, SessionTypes, SE!Absent, SE!Idle, Place, Code, SE!No
<1>2. CodesApart /\ SessionOfLast
  BY DEF SE!Init, CodesApart, SessionOfLast, SE!Absent, SE!Idle, SE!No
<1> QED
  BY <1>1, <1>2 DEF SessionInv

LEMMA SessionStep == ASSUME SE!SessionAssumption, SessionInv, [SE!Next]_SE!sessionVars PROVE SessionInv'
  BY SessionTypesKept, CodesKept, LastKept DEF SessionInv

LEMMA SessionImplies == ASSUME SE!SessionAssumption, SessionInv PROVE SE!AccountsAndSessions /\ SE!TypeOK
<1>1. SE!OneVouchedAccount
  BY DEF SessionInv, SessionTypes, CodesApart, MadeApart, SE!OneVouchedAccount
<1>2. SE!SessionsEnd
  BY DEF SessionInv, SessionTypes, SessionOfLast, SE!SessionsEnd, SE!Verified, SE!Unexpired, SE!SessionAssumption, SE!Token
<1>3. SE!TypeOK
  BY DEF SessionInv, SessionTypes, SE!TypeOK, Code, Place
<1> QED
  BY <1>1, <1>2, <1>3 DEF SE!AccountsAndSessions


(* Each address has one account, opened with both codes, and a token ends  *)
(* with its session, for any number of requests, logins and codes          *)
(* (apis/user.py, verify_token).                                           *)
THEOREM SessionsHold == ASSUME SE!SessionAssumption PROVE SE!Spec => [](SE!AccountsAndSessions /\ SE!TypeOK)
<1>1. SE!Init => SessionInv
  BY SessionStart
<1>2. SessionInv /\ [SE!Next]_SE!sessionVars => SessionInv'
  BY SessionStep
<1>3. SessionInv => SE!AccountsAndSessions /\ SE!TypeOK
  BY SessionImplies
<1> QED
  BY <1>1, <1>2, <1>3, PTL DEF SE!Spec

-----------------------------------------------------------------------------
(***************************************************************************)
(* The displayed state of a monitor (MonitorState).                        *)
(***************************************************************************)

(* A configuration for the position was validated before it was written,   *)
(* and a buy monitor has no thresholds.                                    *)
WrittenValid ==
    /\ row.config.dir = "sell" /\ row.config.model = "spot" => MS!validate_config(row.config)
    /\ row.config.dir = "buy" => row.config.take = 0 /\ row.config.stop = 0

StateInv == MS!TypeOK /\ WrittenValid

LEMMA NormalOf ==
  ASSUME NEW c \in MS!Config
  PROVE  /\ MS!Normal(c) \in MS!Config
         /\ MS!Normal(c).dir = c.dir /\ MS!Normal(c).take = c.take /\ MS!Normal(c).stop = c.stop
         /\ MS!Normal(c).model = IF c.dir = "sell" THEN "spot" ELSE c.model
         /\ c.dir = "sell" /\ c.model = "spot" => MS!Normal(c) = c
         /\ c.dir = "buy" => MS!Normal(c) = c
  BY DEF MS!Normal, MS!Config, MS!Direction, MS!Model

LEMMA MergedOf ==
  ASSUME MS!TypeOK, NEW c \in MS!Change
  PROVE  /\ MS!Merged(c) \in MS!Config
         /\ MS!Merged(c).dir = "buy" => MS!Merged(c).take = 0 /\ MS!Merged(c).stop = 0
<1> DEFINE dir == MS!Or(c.dir, row.config.dir, "keep")
           model == MS!Or(c.model, row.config.model, "keep")
           take == IF dir = "buy" THEN 0 ELSE MS!Or(c.take, row.config.take, MS!Keep)
           stop == IF dir = "buy" THEN 0 ELSE MS!Or(c.stop, row.config.stop, MS!Keep)
<1>1. dir \in MS!Direction /\ model \in MS!Model /\ take \in MS!Price /\ stop \in MS!Price
  BY DEF MS!Or, MS!TypeOK, MS!Row, MS!Config, MS!Change, MS!Keep, MS!Direction, MS!Model, MS!Price
<1>2. MS!Merged(c) = [dir |-> dir, model |-> model, take |-> take, stop |-> stop]
  BY DEF MS!Merged
<1> HIDE DEF model
<1> QED
  BY <1>1, <1>2 DEF MS!Config

LEMMA StateInit == MS!Init => StateInv
  BY DEF MS!Init, StateInv, MS!TypeOK, WrittenValid, MS!Row, MS!Config, MS!Direction, MS!Model, MS!Price, MS!Status, MS!Holding, MS!User

LEMMA StateStep == ASSUME StateInv, [MS!Next]_MS!monitorVars PROVE StateInv'
<1>1. ASSUME NEW viewer \in MS!User, NEW c \in MS!Change, MS!UpdateMonitor(viewer, c) PROVE StateInv'
  <2> DEFINE config == IF c = MS!Pause THEN row.config ELSE MS!Normal(MS!Merged(c))
             valid == IF c.valid = "keep" THEN row.valid ELSE c.valid = "on"
  <2>1. snapshot' = snapshot /\ row' = [row EXCEPT !.config = config, !.valid = valid]
    BY <1>1 DEF MS!UpdateMonitor
  <2>2. row' = [owner |-> row.owner, valid |-> valid, config |-> config]
    BY <2>1 DEF StateInv, MS!TypeOK, MS!Row
  <2>3. config \in MS!Config /\ valid \in BOOLEAN
    BY MergedOf, NormalOf DEF StateInv, MS!TypeOK, MS!Row
  <2>4. CASE c = MS!Pause
    <3>1. row'.config = row.config
      BY <2>2, <2>4
    <3> QED
      BY <2>1, <2>2, <2>3, <3>1 DEF StateInv, MS!TypeOK, MS!Row, WrittenValid, MS!validate_config
  <2>5. CASE c # MS!Pause
    <3>1. row'.config = MS!Normal(MS!Merged(c)) /\ MS!validate_config(MS!Normal(MS!Merged(c)))
      BY <1>1, <2>2, <2>5 DEF MS!UpdateMonitor, MS!Accepted
    <3>2. /\ MS!Normal(MS!Merged(c)).dir = "buy" =>
              MS!Normal(MS!Merged(c)).take = 0 /\ MS!Normal(MS!Merged(c)).stop = 0
      BY MergedOf, NormalOf DEF StateInv
    <3>3. WrittenValid'
      BY <3>1, <3>2 DEF WrittenValid, MS!validate_config
    <3> QED
      BY <2>1, <2>2, <2>3, <3>3 DEF StateInv, MS!TypeOK, MS!Row
  <2> QED
    BY <2>4, <2>5
<1>2. CASE MS!SnapshotChanges
  BY <1>2 DEF MS!SnapshotChanges, StateInv, MS!TypeOK, WrittenValid, MS!validate_config
<1>3. CASE UNCHANGED MS!monitorVars
  BY <1>3 DEF MS!monitorVars, StateInv, MS!TypeOK, WrittenValid, MS!validate_config
<1> QED
  BY <1>1, <1>2, <1>3 DEF MS!Next

LEMMA StateImplies == StateInv => MS!ShownAsDecided
<1> SUFFICES ASSUME StateInv PROVE MS!ShownAsDecided
  OBVIOUS
<1> DEFINE c == row.config
           ready == \/ /\ c.dir = "sell" /\ row.owner = "root" /\ c.model = "spot" /\ MS!Eligible
                    \/ c.dir = "buy" /\ c.model = "open"
<1>1. /\ c \in MS!Config /\ row.owner \in MS!User /\ row.valid \in BOOLEAN
      /\ c.dir \in {"buy", "sell"} /\ c.take \in MS!Price /\ c.stop \in MS!Price
      /\ snapshot.status \in MS!Status /\ snapshot.holding \in MS!Holding
  BY DEF StateInv, MS!TypeOK, MS!Row, MS!Config, MS!Direction
<1>2. MS!Eligible => snapshot.status = "ok"
  BY DEF MS!Eligible, MS!position
<1>3. MS!Readiness = "monitoring" <=> ready
  <2>1. CASE c.dir = "sell"
    <3>1. c.model = "spot" => MS!Normal(c) = c /\ MS!validate_config(c)
      BY <1>1, <2>1, NormalOf DEF StateInv, WrittenValid
    <3>2. snapshot.holding = "monitoring" \/ snapshot.status = "monitoring" => FALSE
      BY <1>1 DEF MS!Holding, MS!Status
    <3> QED
      BY <1>2, <2>1, <3>1, <3>2 DEF MS!Readiness
  <2>2. CASE c.dir = "buy"
    <3>1. MS!Normal(c) = c /\ (MS!validate_config(c) <=> c.model = "open")
      BY <1>1, <2>2, NormalOf DEF StateInv, WrittenValid, MS!validate_config
    <3> QED
      BY <2>2, <3>1 DEF MS!Readiness
  <2> QED
    BY <1>1, <2>1, <2>2
<1> HIDE DEF ready
<1>4. MS!ShownStatus = "monitoring" <=> row.valid /\ ready
  BY <1>1, <1>3 DEF MS!ShownStatus
<1>5. MS!WatchedAsShown
  <2>1. MS!CheckedForPrice \/ MS!CheckedForSignal <=> row.valid /\ ready
    <3>1. c.dir = "sell" /\ c.model = "spot" => c.take # 0 \/ c.stop # 0
      BY DEF StateInv, WrittenValid, MS!validate_config
    <3> QED
      BY <1>1, <3>1 DEF MS!CheckedForPrice, MS!CheckedForSignal, ready
  <2>2. MS!Deliverable <=> row.valid /\ ready
    BY <1>1 DEF MS!Deliverable, ready
  <2> QED
    BY <1>4, <2>1, <2>2 DEF MS!WatchedAsShown
<1>6. ASSUME NEW viewer \in MS!User PROVE MS!ResumeOffered(viewer) <=> MS!Accepted(viewer, MS!Resume)
  <2>1. MS!Accepted(viewer, MS!Resume) => MS!ResumeOffered(viewer)
    BY DEF MS!Accepted
  <2>2. ASSUME MS!ResumeOffered(viewer) PROVE MS!Accepted(viewer, MS!Resume)
    <3>1. /\ MS!Resume.dir = "keep" /\ MS!Resume.model = "keep" /\ MS!Resume.take = MS!Keep /\ MS!Resume.stop = MS!Keep
          /\ MS!Resume # MS!Pause /\ MS!Pause.valid = "off"
      <4>1. MS!Resume.valid = "on" /\ MS!Pause.valid = "off"
        BY DEF MS!Resume, MS!Pause, MS!Only
      <4> QED
        BY <4>1 DEF MS!Resume, MS!Only
    <3>2. MS!Or(MS!Resume.dir, c.dir, "keep") = c.dir
      BY <3>1 DEF MS!Or
    <3>3. ready /\ MS!Manages(viewer)
      BY <1>3, <2>2 DEF MS!ResumeOffered
    <3>4. MS!Merged(MS!Resume) = [dir |-> c.dir, model |-> c.model,
                            take |-> IF c.dir = "buy" THEN 0 ELSE c.take,
                            stop |-> IF c.dir = "buy" THEN 0 ELSE c.stop]
      BY <3>1, <3>2 DEF MS!Merged, MS!Or
    <3>5. MS!Merged(MS!Resume) = c
      BY <1>1, <3>4 DEF StateInv, WrittenValid, MS!Config
    <3>6. MS!validate_config(MS!Normal(c))
      <4>1. CASE c.dir = "sell"
        BY <1>1, <3>3, <4>1, NormalOf DEF ready, StateInv, WrittenValid
      <4>2. CASE c.dir = "buy"
        <5>1. MS!Normal(c) = c /\ c.model = "open"
          BY <1>1, <3>3, <4>2, NormalOf DEF ready
        <5> QED
          BY <4>2, <5>1 DEF StateInv, WrittenValid, MS!validate_config
      <4> QED
        BY <1>1, <4>1, <4>2
    <3>7. c.dir = "sell" => viewer = "root" /\ row.owner = "root" /\ c.model = "spot" /\ MS!Eligible
      BY <3>3 DEF ready, MS!Manages
    <3> QED
      BY <2>2, <3>2, <3>3, <3>5, <3>6, <3>7 DEF MS!Accepted
  <2> QED
    BY <2>1, <2>2
<1> QED
  BY <1>5, <1>6 DEF MS!ShownAsDecided, MS!ResumeHonoured


(* What is shown of a monitor is what the checks, the delivery and a       *)
(* resumption decide, after any history of edits (monitor_state.py).       *)
THEOREM StateShown == MS!Spec => [](MS!ShownAsDecided /\ MS!TypeOK)
<1>1. MS!Init => StateInv
  BY StateInit
<1>2. StateInv /\ [MS!Next]_MS!monitorVars => StateInv'
  BY StateStep
<1>3. StateInv => MS!ShownAsDecided /\ MS!TypeOK
  BY StateImplies DEF StateInv
<1> QED
  BY <1>1, <1>2, <1>3, PTL DEF MS!Spec

-----------------------------------------------------------------------------
(***************************************************************************)
(* Notices of new highs (TopPrice).                                        *)
(***************************************************************************)

JobPlace == {"idle", "fetch", "insert", "users", "rows", "api", "look", "record", "push"}
Telling == {"look", "record", "push"}
JobState == [at : JobPlace, job : {"none", "check", "update"}, candidates : SUBSET TopSymbols,
             rows : [TopSymbols -> 0 .. 2], seen : SUBSET TopSymbols, notice : TP!Notice \cup {TP!NoNotice}]

(* A job tells a notice it has, and goes back to the loop it came from.    *)
(* In the first loop a monitored symbol still is a candidate only if a row *)
(* of it is to come; in the second none is.                                *)
SoundJob(j) ==
    /\ j \in JobState
    /\ j.at \in Telling <=> j.notice \in TP!Notice
    /\ j.at = "rows" \/ j.notice.source = "rows" => \A s \in j.seen \cap j.candidates : j.rows[s] > 0
    /\ j.at = "api" \/ j.notice.source = "api" => j.seen \cap j.candidates = {}
    /\ j.notice.source = "api" => j.notice.symbol \notin j.seen

Jobs == worker \in [Workers -> JobState] /\ \A w \in Workers : SoundJob(worker[w])

TopTypes ==
    /\ listed \subseteq TopSymbols /\ watched \in [TopSymbols -> 0 .. 2] /\ enabled \in BOOLEAN
    /\ hour \in 1 .. MaxHour
    /\ topHistory \subseteq TP!Notice /\ pushes \in [TP!Notice -> 0 .. 1]
    /\ \A m \in topQueue : m.kind \in {"top", "retired"}
    /\ discarded \subseteq {"top", "retired"}

(* A notice is pushed by the one job that wrote it down, once.             *)
OnePusher ==
    /\ \A n \in TP!Notice : pushes[n] = 1 => n \in topHistory
    /\ \A w \in Workers : worker[w].at = "push" => worker[w].notice \in topHistory /\ pushes[worker[w].notice] = 0
    /\ \A v, w \in Workers :
          worker[v].at = "push" /\ worker[w].at = "push" /\ worker[v].notice = worker[w].notice => v = w

TopInv == TopTypes /\ Jobs /\ OnePusher

LEMMA NoNoticeIsNone == TP!NoNotice \notin TP!Notice /\ TP!NoNotice.source = "none"
<1>1. TP!NoNotice.source = "none"
  BY DEF TP!NoNotice
<1>2. \A n \in TP!Notice : n.source # "none"
  BY DEF TP!Notice, TP!Source
<1> QED
  BY <1>1, <1>2

LEMMA RestIsSound == SoundJob(TP!Rest)
<1>1. TP!Rest \in JobState
  BY DEF TP!Rest, JobState, JobPlace
<1> QED
  BY <1>1, NoNoticeIsNone DEF TP!Rest, SoundJob, Telling

(* What a job does concerns itself; unless it writes a notice down or      *)
(* pushes it, the notices stay as they were.                               *)
LEMMA JobMoves ==
  ASSUME Jobs, NEW w \in Workers, NEW j, SoundJob(j), TP!Becomes(w, j)
  PROVE  /\ Jobs'
         /\ worker'[w] = j /\ \A v \in Workers \ {w} : worker'[v] = worker[v]
         /\ OnePusher /\ j.at # "push" /\ UNCHANGED <<topHistory, pushes>> => OnePusher'
<1>1. worker' = [worker EXCEPT ![w] = j] /\ j \in JobState
  BY DEF TP!Becomes, SoundJob
<1>2. worker'[w] = j /\ \A v \in Workers \ {w} : worker'[v] = worker[v]
  BY <1>1 DEF Jobs
<1>3. worker' \in [Workers -> JobState]
  BY <1>1 DEF Jobs
<1>4. ASSUME NEW v \in Workers PROVE SoundJob(worker'[v])
  <2>1. CASE v = w
    BY <1>2, <2>1
  <2>2. CASE v # w
    <3>1. worker'[v] = worker[v]
      BY <1>2, <2>2
    <3> QED
      BY <3>1 DEF Jobs
  <2> QED
    BY <2>1, <2>2
<1>5. Jobs'
  BY <1>3, <1>4 DEF Jobs, SoundJob
<1>6. ASSUME OnePusher, j.at # "push", UNCHANGED <<topHistory, pushes>> PROVE OnePusher'
  BY <1>2, <1>6 DEF OnePusher
<1> QED
  BY <1>2, <1>5, <1>6

LEMMA Fields ==
  ASSUME NEW j \in JobState
  PROVE  /\ j = [at |-> j.at, job |-> j.job, candidates |-> j.candidates, rows |-> j.rows, seen |-> j.seen,
                 notice |-> j.notice]
         /\ j.at \in JobPlace /\ j.job \in {"none", "check", "update"} /\ j.candidates \subseteq TopSymbols
         /\ j.rows \in [TopSymbols -> 0 .. 2] /\ j.seen \subseteq TopSymbols /\ j.notice \in TP!Notice \cup {TP!NoNotice}
  BY DEF JobState

(* The steps before the loops carry no notice.                             *)
LEMMA BeforeLoops ==
  ASSUME NEW j \in JobState, j.at \notin Telling \cup {"rows", "api"}, j.notice = TP!NoNotice
  PROVE  SoundJob(j)
  BY NoNoticeIsNone DEF SoundJob

LEMMA StartsAndFetches ==
  ASSUME TopInv, NEW w \in Workers,
         TP!StartCheck(w) \/ TP!StartUpdate(w) \/ TP!FetchSymbols(w) \/ TP!InsertSymbols(w)
  PROVE  TopInv'
<1> DEFINE j == worker[w]
<1>0. j \in JobState /\ SoundJob(j)
  BY DEF TopInv, Jobs
<1>a. j.at \notin Telling => j.notice = TP!NoNotice
  BY <1>0, Fields DEF SoundJob
<1>1. CASE TP!StartCheck(w)
  <2> DEFINE k == [TP!Rest EXCEPT !.at = IF listed = {} THEN "fetch" ELSE "users", !.job = "check", !.candidates = listed]
  <2>1. TP!Becomes(w, k) /\ UNCHANGED <<listed, watched, enabled, hour, topHistory, topQueue, pushes, discarded>>
    BY <1>1 DEF TP!StartCheck
  <2>2. TP!Rest \in JobState /\ listed \in SUBSET TopSymbols
    BY RestIsSound DEF SoundJob, TopInv, TopTypes
  <2>3. k \in JobState
    BY <2>2 DEF JobState, JobPlace
  <2>4. k.at \in {"fetch", "users"} /\ k.notice = TP!NoNotice
    BY DEF TP!Rest
  <2> HIDE DEF k
  <2>5. SoundJob(k) /\ k.at # "push"
    BY <2>3, <2>4, BeforeLoops DEF Telling
  <2> QED
    BY <2>1, <2>5, JobMoves DEF TopInv, TopTypes
<1>2. CASE TP!StartUpdate(w)
  <2> DEFINE k == [TP!Rest EXCEPT !.at = "fetch", !.job = "update"]
  <2>1. TP!Becomes(w, k) /\ UNCHANGED <<listed, watched, enabled, hour, topHistory, topQueue, pushes, discarded>>
    BY <1>2 DEF TP!StartUpdate
  <2>2. TP!Rest \in JobState
    BY RestIsSound DEF SoundJob
  <2>3. k \in JobState
    BY <2>2 DEF JobState, JobPlace
  <2>4. k.at = "fetch" /\ k.notice = TP!NoNotice
    BY DEF TP!Rest
  <2> HIDE DEF k
  <2>5. SoundJob(k) /\ k.at # "push"
    BY <2>3, <2>4, BeforeLoops DEF Telling
  <2> QED
    BY <2>1, <2>5, JobMoves DEF TopInv, TopTypes
<1>3. CASE TP!FetchSymbols(w)
  <2> DEFINE k == [j EXCEPT !.at = "insert", !.candidates = TopSymbols, !.seen = listed]
  <2>1. TP!Becomes(w, k) /\ UNCHANGED <<listed, watched, enabled, hour, topHistory, topQueue, pushes, discarded>>
    BY <1>3 DEF TP!FetchSymbols
  <2>2. j.notice = TP!NoNotice
    BY <1>3, <1>a DEF TP!FetchSymbols, TP!Is, Telling
  <2> HIDE DEF j
  <2>3. k \in JobState
    BY <1>0 DEF JobState, JobPlace, TopInv, TopTypes
  <2>4. k.at = "insert" /\ k.notice = TP!NoNotice
    BY <1>0, <2>2 DEF JobState
  <2> HIDE DEF k
  <2>5. SoundJob(k) /\ k.at # "push"
    BY <2>3, <2>4, BeforeLoops DEF Telling
  <2> QED
    BY <2>1, <2>5, JobMoves DEF TopInv, TopTypes
<1>4. CASE TP!InsertSymbols(w)
  <2> DEFINE k == [j EXCEPT !.at = "users", !.seen = {}]
  <2>1. /\ TP!Becomes(w, TP!Rest) \/ TP!Becomes(w, k)
        /\ listed' = listed \/ listed' = listed \cup (j.candidates \ j.seen)
        /\ UNCHANGED <<watched, enabled, hour, topHistory, topQueue, pushes, discarded>>
    BY <1>4 DEF TP!InsertSymbols
  <2>2. j.notice = TP!NoNotice
    BY <1>4, <1>a DEF TP!InsertSymbols, TP!Is, Telling
  <2> HIDE DEF j
  <2>3. k \in JobState
    BY <1>0 DEF JobState, JobPlace
  <2>4. k.at = "users" /\ k.notice = TP!NoNotice
    BY <1>0, <2>2 DEF JobState
  <2> HIDE DEF k
  <2>5. SoundJob(k) /\ k.at # "push" /\ SoundJob(TP!Rest) /\ TP!Rest.at # "push"
    BY <2>3, <2>4, BeforeLoops, RestIsSound DEF Telling, TP!Rest
  <2>6. listed' \subseteq TopSymbols
    BY <1>0, <2>1, Fields DEF TopInv, TopTypes
  <2>7. TopTypes'
    BY <2>1, <2>6 DEF TopInv, TopTypes
  <2> QED
    BY <2>1, <2>5, <2>7, JobMoves DEF TopInv
<1> QED
  BY <1>1, <1>2, <1>3, <1>4

(* A job that rests again, or that is about to tell.                       *)
LEMMA Rests ==
  ASSUME TopInv, NEW w \in Workers, TP!Becomes(w, TP!Rest),
         UNCHANGED <<listed, watched, enabled, hour, topHistory, topQueue, pushes, discarded>>
  PROVE  TopInv'
<1>1. SoundJob(TP!Rest) /\ TP!Rest.at # "push"
  BY RestIsSound DEF TP!Rest
<1> QED
  BY <1>1, JobMoves DEF TopInv, TopTypes

LEMMA Continues ==
  ASSUME TopInv, NEW w \in Workers, NEW j, SoundJob(j), j.at # "push", TP!Becomes(w, j),
         UNCHANGED <<listed, watched, enabled, hour, topHistory, topQueue, pushes, discarded>>
  PROVE  TopInv'
BY JobMoves DEF TopInv, TopTypes

LEMMA ReadsMonitors ==
  ASSUME TopInv, NEW w \in Workers, TP!ReadMonitors(w)
  PROVE  TopInv'
<1> DEFINE j == worker[w]
           watching == {s \in TopSymbols : watched[s] > 0}
           k == [j EXCEPT !.at = "rows", !.rows = watched, !.seen = watching]
<1>1. TP!Becomes(w, k) /\ UNCHANGED <<listed, watched, enabled, hour, topHistory, topQueue, pushes, discarded>>
  BY DEF TP!ReadMonitors
<1>2. j \in JobState /\ SoundJob(j) /\ j.at = "users"
  BY DEF TopInv, Jobs, TP!ReadMonitors, TP!Is
<1>3. j.notice = TP!NoNotice
  BY <1>2, Fields DEF SoundJob, Telling
<1>4. watched \in [TopSymbols -> 0 .. 2]
  BY DEF TopInv, TopTypes
<1>5. \A s \in watching : watched[s] > 0
  OBVIOUS
<1>6. watching \in SUBSET TopSymbols
  OBVIOUS
<1> HIDE DEF j, watching
<1>7. k \in JobState
  BY <1>2, <1>4, <1>6 DEF JobState, JobPlace
<1>8. k.at = "rows" /\ k.notice = TP!NoNotice /\ k.rows = watched /\ k.seen = watching
  BY <1>2, <1>3 DEF JobState
<1> HIDE DEF k
<1>9. SoundJob(k)
  BY <1>5, <1>7, <1>8, NoNoticeIsNone DEF SoundJob, Telling
<1> QED
  BY <1>1, <1>8, <1>9, Continues

(* A notice that a loop comes to: the job tells it before it goes on.      *)
LEMMA Tells ==
  ASSUME NEW j \in JobState, SoundJob(j), j.notice = TP!NoNotice, NEW n \in TP!Notice, n.source = j.at,
         n.source = "api" => n.symbol \notin j.seen
  PROVE  /\ SoundJob([j EXCEPT !.at = "look", !.notice = n])
         /\ [j EXCEPT !.at = "look", !.notice = n].at # "push"
<1> DEFINE k == [j EXCEPT !.at = "look", !.notice = n]
<1>1. k \in JobState
  BY DEF JobState, JobPlace
<1>2. /\ k.at = "look" /\ k.notice = n /\ k.seen = j.seen /\ k.candidates = j.candidates /\ k.rows = j.rows
  BY DEF JobState
<1> HIDE DEF k
<1>3. SoundJob(k) /\ k.at # "push"
  BY <1>1, <1>2 DEF SoundJob, Telling
<1> QED
  BY <1>3 DEF k

(* A row of a monitor taken: a candidate it was of is none any more.       *)
LEMMA TakesMonitor ==
  ASSUME TopInv, NEW w \in Workers, NEW s \in TopSymbols, TP!TakeMonitor(w, s)
  PROVE  TopInv'
<1> DEFINE j == worker[w]
           rest == j.candidates \ {s}
           k == [TP!Taken(w, s) EXCEPT !.candidates = @ \ {s}]
<1>1. j \in JobState /\ SoundJob(j) /\ j.at = "rows" /\ j.rows[s] > 0
  BY DEF TopInv, Jobs, TP!TakeMonitor, TP!Is
<1>2. j.notice = TP!NoNotice
  BY <1>1, Fields DEF SoundJob, Telling
<1>3. \A t \in j.seen \cap j.candidates : j.rows[t] > 0
  BY <1>1 DEF SoundJob
<1>4. /\ \/ s \in j.candidates /\ TP!Becomes(w, k)
         \/ s \notin j.candidates /\ (TP!Becomes(w, TP!Taken(w, s)) \/ TP!Notices(w, s, TP!Taken(w, s)))
      /\ UNCHANGED <<listed, watched, enabled, hour, topHistory, topQueue, pushes, discarded>>
  BY DEF TP!TakeMonitor
<1>5. TP!Taken(w, s) = [j EXCEPT !.rows[s] = @ - 1]
  BY DEF TP!Taken
<1>6. TP!Notices(w, s, TP!Taken(w, s)) =>
         \E n \in TP!Notice : n.source = "rows" /\ TP!Becomes(w, [TP!Taken(w, s) EXCEPT !.at = "look", !.notice = n])
  BY <1>1 DEF TP!Notices
<1> DEFINE less == [j.rows EXCEPT ![s] = @ - 1]
           taken == TP!Taken(w, s)
<1>7. less \in [TopSymbols -> 0 .. 2] /\ \A t \in TopSymbols \ {s} : less[t] = j.rows[t]
  BY <1>1, Fields
<1> HIDE DEF j
<1>8. /\ taken = [j EXCEPT !.rows = less]
  BY <1>1, <1>5 DEF JobState
<1> HIDE DEF less
<1>9. /\ taken \in JobState /\ taken.at = "rows" /\ taken.rows = less /\ taken.notice = TP!NoNotice
      /\ taken.candidates = j.candidates /\ taken.seen = j.seen
  BY <1>1, <1>2, <1>7, <1>8 DEF JobState
<1>10. /\ k \in JobState /\ k.at = "rows" /\ k.rows = less /\ k.notice = TP!NoNotice
       /\ k.candidates = rest /\ k.seen = j.seen
  <2> HIDE DEF taken
  <2>1. k = [taken EXCEPT !.candidates = @ \ {s}]
    BY DEF taken
  <2> QED
    BY <1>9, <2>1 DEF JobState
<1> HIDE DEF k, taken
<1>a. j.candidates \subseteq TopSymbols /\ j.seen \subseteq TopSymbols
  BY <1>1, Fields
<1>11. SoundJob(k) /\ k.at # "push"
  <2>1. \A t \in k.seen \cap k.candidates : k.rows[t] > 0
    BY <1>3, <1>7, <1>10, <1>a
  <2> QED
    BY <1>10, <2>1, NoNoticeIsNone DEF SoundJob, Telling
<1>12. s \notin j.candidates => SoundJob(taken) /\ taken.at # "push"
  <2>1. s \notin j.candidates => \A t \in taken.seen \cap taken.candidates : taken.rows[t] > 0
    BY <1>3, <1>7, <1>9, <1>a
  <2> QED
    BY <1>9, <2>1, NoNoticeIsNone DEF SoundJob, Telling
<1>13. CASE s \in j.candidates /\ TP!Becomes(w, k)
  BY <1>4, <1>11, <1>13, Continues
<1>14. CASE s \notin j.candidates /\ TP!Becomes(w, taken)
  BY <1>4, <1>12, <1>14, Continues
<1>15. CASE s \notin j.candidates /\ TP!Notices(w, s, taken)
  <2>1. PICK n \in TP!Notice : n.source = "rows" /\ TP!Becomes(w, [taken EXCEPT !.at = "look", !.notice = n])
    BY <1>6, <1>15 DEF taken
  <2>2. /\ SoundJob([taken EXCEPT !.at = "look", !.notice = n])
        /\ [taken EXCEPT !.at = "look", !.notice = n].at # "push"
    BY <1>9, <1>12, <1>15, <2>1, Tells
  <2> QED
    BY <1>4, <2>1, <2>2, Continues
<1> QED
  BY <1>4, <1>13, <1>14, <1>15 DEF taken

LEMMA FinishesMonitors ==
  ASSUME TopInv, NEW w \in Workers, TP!MonitorsDone(w)
  PROVE  TopInv'
<1> DEFINE j == worker[w]
           k == [j EXCEPT !.at = "api"]
<1>1. j \in JobState /\ SoundJob(j) /\ j.at = "rows" /\ \A s \in TopSymbols : j.rows[s] = 0
  BY DEF TopInv, Jobs, TP!MonitorsDone, TP!Is
<1>2. /\ TP!Becomes(w, k) \/ TP!Becomes(w, TP!Rest)
      /\ UNCHANGED <<listed, watched, enabled, hour, topHistory, topQueue, pushes, discarded>>
  BY DEF TP!MonitorsDone
<1> HIDE DEF j
<1>3. j.notice = TP!NoNotice
  BY <1>1, Fields DEF SoundJob, Telling
<1>4. j.candidates \subseteq TopSymbols
  BY <1>1, Fields
<1>5. j.seen \cap j.candidates = {}
  BY <1>1, <1>4 DEF SoundJob
<1>6. /\ k \in JobState /\ k.at = "api" /\ k.notice = TP!NoNotice
      /\ k.candidates = j.candidates /\ k.seen = j.seen
  BY <1>1, <1>3 DEF JobState, JobPlace
<1> HIDE DEF k
<1>7. SoundJob(k)
  BY <1>5, <1>6, NoNoticeIsNone DEF SoundJob, Telling
<1> QED
  BY <1>2, <1>6, <1>7, Continues, Rests

LEMMA TakesCandidate ==
  ASSUME TopInv, NEW w \in Workers, NEW s \in TopSymbols, TP!TakeCandidate(w, s)
  PROVE  TopInv'
<1> DEFINE j == worker[w]
           k == TP!Struck(w, s)
<1>1. j \in JobState /\ SoundJob(j) /\ j.at = "api" /\ s \in j.candidates
  BY DEF TopInv, Jobs, TP!TakeCandidate, TP!Is
<1>2. /\ TP!Becomes(w, k) \/ TP!Notices(w, s, k)
      /\ UNCHANGED <<listed, watched, enabled, hour, topHistory, topQueue, pushes, discarded>>
  BY DEF TP!TakeCandidate
<1>3. TP!Notices(w, s, k) =>
         \E n \in TP!Notice : n.source = "api" /\ n.symbol = s /\ TP!Becomes(w, [k EXCEPT !.at = "look", !.notice = n])
  BY <1>1 DEF TP!Notices
<1>4. k = [j EXCEPT !.candidates = @ \ {s}]
  BY DEF TP!Struck
<1> HIDE DEF j, k
<1>5. j.notice = TP!NoNotice /\ j.seen \cap j.candidates = {}
  BY <1>1, Fields DEF SoundJob, Telling
<1>6. /\ k \in JobState /\ k.at = "api" /\ k.notice = TP!NoNotice
      /\ k.candidates = j.candidates \ {s} /\ k.seen = j.seen
  BY <1>1, <1>4, <1>5 DEF JobState
<1>7. SoundJob(k)
  BY <1>5, <1>6, NoNoticeIsNone DEF SoundJob, Telling
<1>8. CASE TP!Becomes(w, k)
  BY <1>2, <1>6, <1>7, <1>8, Continues
<1>9. CASE TP!Notices(w, s, k)
  <2>1. PICK n \in TP!Notice : n.source = "api" /\ n.symbol = s /\ TP!Becomes(w, [k EXCEPT !.at = "look", !.notice = n])
    BY <1>3, <1>9
  <2>2. n.symbol \notin k.seen
    BY <1>1, <1>5, <1>6, <2>1
  <2>3. /\ SoundJob([k EXCEPT !.at = "look", !.notice = n])
        /\ [k EXCEPT !.at = "look", !.notice = n].at # "push"
    BY <1>6, <1>7, <2>1, <2>2, Tells
  <2> QED
    BY <1>2, <2>1, <2>3, Continues
<1> QED
  BY <1>2, <1>8, <1>9

(* A job that told goes back to its loop, and nothing it knew of the       *)
(* monitors and candidates is lost.                                        *)
LEMMA ResumesSound ==
  ASSUME Jobs, NEW w \in Workers, worker[w].at \in Telling
  PROVE  SoundJob(TP!Resumed(w)) /\ TP!Resumed(w).at # "push"
<1> DEFINE j == worker[w]
           k == TP!Resumed(w)
<1>1. j \in JobState /\ SoundJob(j) /\ j.at \in Telling
  BY DEF Jobs
<1>2. k = [j EXCEPT !.at = j.notice.source, !.notice = TP!NoNotice]
  BY DEF TP!Resumed
<1> HIDE DEF j, k
<1>3. j.notice \in TP!Notice
  BY <1>1 DEF SoundJob
<1>4. j.notice.source \in {"rows", "api"}
  BY <1>3 DEF TP!Notice, TP!Source
<1>5. /\ k \in JobState /\ k.at = j.notice.source /\ k.notice = TP!NoNotice
      /\ k.candidates = j.candidates /\ k.seen = j.seen /\ k.rows = j.rows
  BY <1>1, <1>2, <1>4 DEF JobState, JobPlace
<1>6. SoundJob(k) /\ k.at # "push"
  BY <1>1, <1>4, <1>5, NoNoticeIsNone DEF SoundJob, Telling
<1> QED
  BY <1>6 DEF k

LEMMA Steps ==
  ASSUME NEW j \in JobState, SoundJob(j), j.at \in Telling, NEW place \in Telling
  PROVE  SoundJob([j EXCEPT !.at = place]) /\ [j EXCEPT !.at = place].at = place
         /\ [j EXCEPT !.at = place].notice = j.notice
<1> DEFINE k == [j EXCEPT !.at = place]
<1>1. /\ k \in JobState /\ k.at = place /\ k.notice = j.notice
      /\ k.candidates = j.candidates /\ k.seen = j.seen /\ k.rows = j.rows
  BY DEF JobState, JobPlace, Telling
<1> HIDE DEF k
<1>2. SoundJob(k)
  BY <1>1 DEF SoundJob, Telling
<1> QED
  BY <1>1, <1>2 DEF k

LEMMA LooksAtHistory ==
  ASSUME TopInv, NEW w \in Workers, TP!LookAtHistory(w)
  PROVE  TopInv'
<1>1. worker[w] \in JobState /\ SoundJob(worker[w]) /\ worker[w].at = "look"
  BY DEF TopInv, Jobs, TP!LookAtHistory, TP!Is
<1>2. SoundJob(TP!Resumed(w)) /\ TP!Resumed(w).at # "push"
  BY <1>1, ResumesSound DEF TopInv, Telling
<1> DEFINE k == [worker[w] EXCEPT !.at = "record"]
<1>3. /\ TP!Becomes(w, TP!Resumed(w)) \/ TP!Becomes(w, k)
      /\ UNCHANGED <<listed, watched, enabled, hour, topHistory, topQueue, pushes, discarded>>
  BY DEF TP!LookAtHistory, TP!Goto
<1>4. SoundJob(k) /\ k.at # "push"
  BY <1>1, Steps DEF Telling
<1> HIDE DEF k
<1> QED
  BY <1>2, <1>3, <1>4, Continues

(* The digest is unique: whoever writes a notice down is the only one      *)
(* about to push it, and nobody pushed it before.                          *)
LEMMA RecordsNotice ==
  ASSUME TopInv, NEW w \in Workers, TP!RecordNotice(w)
  PROVE  TopInv'
<1> DEFINE n == worker[w].notice
           k == [worker[w] EXCEPT !.at = "push"]
<1>1. worker[w] \in JobState /\ SoundJob(worker[w]) /\ worker[w].at = "record"
  BY DEF TopInv, Jobs, TP!RecordNotice, TP!Is
<1>2. n \in TP!Notice
  BY <1>1 DEF SoundJob, Telling
<1>3. CASE n \in topHistory
  BY <1>3, Rests DEF TP!RecordNotice
<1>4. CASE n \notin topHistory
  <2>1. /\ topHistory' = topHistory \cup {n} /\ TP!Becomes(w, k)
        /\ UNCHANGED <<listed, watched, enabled, hour, topQueue, pushes, discarded>>
    BY <1>4 DEF TP!RecordNotice, TP!Goto
  <2>2. SoundJob(k) /\ k.at = "push" /\ k.notice = n
    BY <1>1, Steps DEF Telling
  <2> HIDE DEF k
  <2>3. Jobs' /\ worker'[w] = k /\ \A v \in Workers \ {w} : worker'[v] = worker[v]
    BY <2>1, <2>2, JobMoves DEF TopInv
  <2>4. pushes[n] = 0
    BY <1>2, <1>4 DEF TopInv, TopTypes, OnePusher
  <2> HIDE DEF n
  <2>5. TopTypes'
    BY <1>2, <2>1 DEF TopInv, TopTypes
  <2>6. \A v \in Workers \ {w} : worker[v].at = "push" => worker[v].notice # n
    BY <1>4 DEF TopInv, OnePusher
  <2>7. OnePusher'
    <3>1. (\A m \in TP!Notice : pushes[m] = 1 => m \in topHistory)'
      BY <2>1 DEF TopInv, OnePusher
    <3>2. ASSUME NEW v \in Workers, worker'[v].at = "push"
          PROVE  worker'[v].notice \in topHistory' /\ pushes'[worker'[v].notice] = 0
      BY <2>1, <2>2, <2>3, <2>4, <3>2 DEF TopInv, OnePusher
    <3>3. ASSUME NEW u \in Workers, NEW v \in Workers, worker'[u].at = "push", worker'[v].at = "push",
                 worker'[u].notice = worker'[v].notice
          PROVE  u = v
      BY <2>2, <2>3, <2>6, <3>3 DEF TopInv, OnePusher
    <3> QED
      BY <3>1, <3>2, <3>3 DEF OnePusher
  <2> QED
    BY <2>3, <2>5, <2>7 DEF TopInv
<1> QED
  BY <1>3, <1>4

LEMMA PushesNotice ==
  ASSUME TopInv, NEW w \in Workers, TP!PushNotice(w)
  PROVE  TopInv'
<1> DEFINE n == worker[w].notice
           k == TP!Resumed(w)
<1>1. worker[w] \in JobState /\ SoundJob(worker[w]) /\ worker[w].at = "push"
  BY DEF TopInv, Jobs, TP!PushNotice, TP!Is
<1>2. n \in TP!Notice /\ n \in topHistory /\ pushes[n] = 0
  BY <1>1 DEF SoundJob, Telling, TopInv, OnePusher
<1>3. SoundJob(k) /\ k.at # "push"
  BY <1>1, ResumesSound DEF TopInv, Telling
<1>4. /\ TP!Becomes(w, k) /\ UNCHANGED <<listed, watched, enabled, hour, topHistory, discarded>>
      /\ \/ UNCHANGED <<topQueue, pushes>>
         \/ /\ topQueue' = topQueue \cup {[kind |-> "top", notice |-> n]}
            /\ pushes' = [pushes EXCEPT ![n] = @ + 1]
  BY DEF TP!PushNotice
<1>5. \A v \in Workers \ {w} : worker[v].at = "push" => worker[v].notice # n
  BY <1>1 DEF TopInv, OnePusher
<1> HIDE DEF n, k
<1>6. CASE UNCHANGED <<topQueue, pushes>>
  BY <1>3, <1>4, <1>6, Continues
<1>7. CASE /\ topQueue' = topQueue \cup {[kind |-> "top", notice |-> n]}
           /\ pushes' = [pushes EXCEPT ![n] = @ + 1]
  <2>1. Jobs' /\ worker'[w] = k /\ \A v \in Workers \ {w} : worker'[v] = worker[v]
    BY <1>3, <1>4, JobMoves DEF TopInv
  <2>2. pushes \in [TP!Notice -> 0 .. 1]
    BY DEF TopInv, TopTypes
  <2>3. pushes' \in [TP!Notice -> 0 .. 1] /\ pushes'[n] = 1 /\ \A m \in TP!Notice \ {n} : pushes'[m] = pushes[m]
    BY <1>2, <1>7, <2>2
  <2>4. \A m \in topQueue' : m.kind \in {"top", "retired"}
    BY <1>7 DEF TopInv, TopTypes
  <2>5. TopTypes'
    BY <1>4, <2>3, <2>4 DEF TopInv, TopTypes
  <2>6. OnePusher'
    <3>1. ASSUME NEW m \in TP!Notice, pushes'[m] = 1 PROVE m \in topHistory'
      BY <1>2, <1>4, <2>3, <3>1 DEF TopInv, OnePusher
    <3>2. ASSUME NEW v \in Workers, worker'[v].at = "push"
          PROVE  worker'[v].notice \in topHistory' /\ pushes'[worker'[v].notice] = 0
      <4>1. v # w /\ worker'[v] = worker[v]
        BY <1>3, <2>1, <3>2
      <4>2. worker[v].notice # n /\ worker[v].notice \in topHistory /\ pushes[worker[v].notice] = 0
        BY <1>5, <3>2, <4>1 DEF TopInv, OnePusher
      <4>3. worker[v].notice \in TP!Notice
        BY <4>2 DEF TopInv, TopTypes
      <4> QED
        BY <1>4, <2>3, <4>1, <4>2, <4>3
    <3>3. ASSUME NEW u \in Workers, NEW v \in Workers, worker'[u].at = "push", worker'[v].at = "push",
                 worker'[u].notice = worker'[v].notice
          PROVE  u = v
      BY <1>3, <2>1, <3>3 DEF TopInv, OnePusher
    <3> QED
      BY <3>1, <3>2, <3>3 DEF OnePusher
  <2> QED
    BY <2>1, <2>5, <2>6 DEF TopInv
<1> QED
  BY <1>4, <1>6, <1>7

LEMMA TopStart == TP!TopAssumption /\ TP!Init => TopInv
<1> SUFFICES ASSUME TP!TopAssumption, TP!Init PROVE TopInv
  OBVIOUS
<1>1. worker = [w \in Workers |-> TP!Rest] /\ pushes = [n \in TP!Notice |-> 0]
  BY DEF TP!Init
<1>2. SoundJob(TP!Rest) /\ TP!Rest \in JobState /\ TP!Rest.at = "idle"
  BY RestIsSound DEF SoundJob, TP!Rest
<1>3. Jobs
  BY <1>1, <1>2 DEF Jobs
<1>4. \A w \in Workers : worker[w].at # "push"
  BY <1>1, <1>2
<1>5. \A n \in TP!Notice : pushes[n] = 0
  BY <1>1
<1>6. OnePusher
  BY <1>4, <1>5 DEF OnePusher
<1>7. \A m \in topQueue : m.kind \in {"top", "retired"}
  BY DEF TP!Init
<1>8. hour \in 1 .. MaxHour
  BY DEF TP!Init, TP!TopAssumption
<1>9. TopTypes
  BY <1>1, <1>7, <1>8 DEF TopTypes, TP!Init
<1> QED
  BY <1>3, <1>6, <1>9 DEF TopInv

LEMMA TopStep == TP!TopAssumption /\ TopInv /\ [TP!Next]_TP!topVars => TopInv'
<1> SUFFICES ASSUME TP!TopAssumption, TopInv, [TP!Next]_TP!topVars PROVE TopInv'
  OBVIOUS
<1>1. ASSUME NEW w \in Workers, TP!Crash(w) PROVE TopInv'
  BY <1>1, Rests DEF TP!Crash
<1>2. ASSUME NEW w \in Workers, TP!CandidatesDone(w) PROVE TopInv'
  BY <1>2, Rests DEF TP!CandidatesDone
<1>3. ASSUME NEW m \in topQueue, TP!TakeMessage(m) PROVE TopInv'
  <2>1. TopTypes'
    BY <1>3 DEF TP!TakeMessage, TopInv, TopTypes
  <2> QED
    BY <1>3, <2>1 DEF TP!TakeMessage, TopInv, Jobs, OnePusher
<1>4. CASE TP!NextHour
  <2>1. hour' \in 1 .. MaxHour
    BY <1>4 DEF TP!NextHour, TopInv, TopTypes, TP!TopAssumption
  <2> QED
    BY <1>4, <2>1 DEF TP!NextHour, TopInv, TopTypes, Jobs, OnePusher
<1>5. CASE TP!SetEnabled
  BY <1>5 DEF TP!SetEnabled, TopInv, TopTypes, Jobs, OnePusher
<1>6. CASE UNCHANGED TP!topVars
  BY <1>6 DEF TP!topVars, TopInv, TopTypes, Jobs, OnePusher
<1> QED
  BY <1>1, <1>2, <1>3, <1>4, <1>5, <1>6, StartsAndFetches, ReadsMonitors, TakesMonitor, FinishesMonitors,
     TakesCandidate, LooksAtHistory, RecordsNotice, PushesNotice DEF TP!Next

(* Each new high is told once, and a candidate's only when nobody watches  *)
(* it.                                                                     *)
LEMMA TopImplies == TopInv => TP!HighsToldOnce /\ TP!TypeOK
<1> SUFFICES ASSUME TopInv PROVE TP!HighsToldOnce /\ TP!TypeOK
  OBVIOUS
<1>1. ASSUME NEW n \in TP!Notice PROVE pushes[n] <= IF n \in topHistory THEN 1 ELSE 0
  BY DEF TopInv, TopTypes, OnePusher
<1>2. ASSUME NEW w \in Workers
      PROVE  /\ SoundJob(worker[w]) /\ worker[w] \in JobState /\ worker[w].at \in JobPlace
             /\ worker[w].candidates \subseteq TopSymbols /\ worker[w].rows \in [TopSymbols -> 0 .. 2]
             /\ worker[w].notice \in TP!Notice \cup {TP!NoNotice}
  BY Fields DEF TopInv, Jobs
<1>3. TP!CandidatesUnwatched
  BY <1>2 DEF SoundJob, TP!CandidatesUnwatched, TP!Is
<1>4. TP!PublishedOnce
  BY <1>1 DEF TP!PublishedOnce
<1>5. TP!TypeOK
  BY <1>2 DEF TP!TypeOK, TopInv, TopTypes, SoundJob, JobPlace, Telling
<1> QED
  BY <1>3, <1>4, <1>5 DEF TP!HighsToldOnce


(* Each new high is told once, and a candidate's only when nobody watches  *)
(* it, for any number of consumers, symbols and hours (plot.py:237-255,    *)
(* base.py:28-49).                                                         *)
THEOREM HighsTold == ASSUME TP!TopAssumption PROVE TP!Spec => [](TP!HighsToldOnce /\ TP!TypeOK)
<1>1. TP!Init => TopInv
  BY TopStart
<1>2. TopInv /\ [TP!Next]_TP!topVars => TopInv'
  BY TopStep
<1>3. TopInv => TP!HighsToldOnce /\ TP!TypeOK
  BY TopImplies
<1> QED
  BY <1>1, <1>2, <1>3, PTL DEF TP!Spec

-----------------------------------------------------------------------------
(***************************************************************************)
(* Side by side: a component that is parked rests in one of its initial    *)
(* states, so a behaviour of all is one of each.                           *)
(***************************************************************************)
LEMMA RunsEach ==
  PartsSpec => RL!Spec /\ SE!Spec /\ MS!Spec /\ ML!Spec /\ SV!Spec /\ TP!Spec /\ BT!Spec
<1> DEFINE partsVars == <<part, vars, rateParts, sessionParts, stateParts, listParts, strategyParts, topParts,
                         backtestParts, conditionParts, scoreParts, exitParts, viewParts, tradeParts>>
<1>1. PartsInit => RL!Init /\ SE!Init /\ MS!Init /\ ML!Init /\ SV!Init /\ TP!Init /\ BT!Init
  BY DEF PartsInit
<1>2. [PartsNext]_partsVars => [RL!Next]_RL!rateVars
  BY DEF PartsNext, rateParts, RL!rateVars
<1>3. [PartsNext]_partsVars => [SE!Next]_SE!sessionVars
  BY DEF PartsNext, sessionParts, SE!sessionVars
<1>4. [PartsNext]_partsVars => [MS!Next]_MS!monitorVars
  BY DEF PartsNext, stateParts, MS!monitorVars
<1>5. [PartsNext]_partsVars => [ML!Next]_ML!listVars
  BY DEF PartsNext, listParts, ML!listVars
<1>6. [PartsNext]_partsVars => [SV!Next]_SV!strategyVars
  BY DEF PartsNext, strategyParts, SV!strategyVars
<1>7. [PartsNext]_partsVars => [TP!Next]_TP!topVars
  BY DEF PartsNext, topParts, TP!topVars
<1>8. [PartsNext]_partsVars => [BT!Next]_BT!backtestVars
  BY DEF PartsNext, backtestParts, BT!backtestVars
<1>9. PartsSpec => PartsInit /\ [][PartsNext]_partsVars
  BY DEF PartsSpec
<1> HIDE DEF partsVars
<1> QED
  BY <1>1, <1>2, <1>3, <1>4, <1>5, <1>6, <1>7, <1>8, <1>9, PTL
     DEF RL!Spec, SE!Spec, MS!Spec, ML!Spec, SV!Spec, TP!Spec, BT!Spec

(* The limiters, whatever is asked of them and however Redis fails.        *)
THEOREM LimitsKeptInParts == PartsSpec => []LimitsKept
<1>1. RL!LimitsKept => LimitsKept
  BY DEF LimitsKept
<1>2. RL!Spec => [](RL!LimitsKept /\ RL!TypeOK)
  BY RateInstance, LimitsHold
<1> QED
  BY <1>1, <1>2, RunsEach, PTL

(* Accounts and sessions, however the requests overlap.                    *)
THEOREM AccountsAndSessionsInParts == PartsSpec => []AccountsAndSessions
<1>1. SE!AccountsAndSessions => AccountsAndSessions
  BY DEF AccountsAndSessions
<1>2. SE!Spec => [](SE!AccountsAndSessions /\ SE!TypeOK)
  BY SessionInstance, SessionsHold
<1> QED
  BY <1>1, <1>2, RunsEach, PTL

(* What is shown of a monitor, after any history of edits.                 *)
THEOREM ShownAsDecidedInParts == PartsSpec => []ShownAsDecided
<1>1. MS!ShownAsDecided => ShownAsDecided
  BY DEF ShownAsDecided
<1>2. MS!Spec => [](MS!ShownAsDecided /\ MS!TypeOK)
  BY StateShown
<1> QED
  BY <1>1, <1>2, RunsEach, PTL

(* The list of monitors, for any number of overlapping requests.           *)
THEOREM MonitorsKeptInParts == PartsSpec => []MonitorsKept
<1>1. ML!MonitorsKept => MonitorsKept
  BY DEF MonitorsKept
<1>2. ML!Spec => [](ML!MonitorsKept /\ ML!TypeOK)
  BY ListInstance, ListKept
<1> QED
  BY <1>1, <1>2, RunsEach, PTL

(* The saved strategies, however many browsers edit them.                  *)
THEOREM NoSaveLostInParts == PartsSpec => []NoSaveLost
<1>1. SV!NoSaveLost => NoSaveLost
  BY DEF NoSaveLost
<1>2. SV!Spec => [](SV!NoSaveLost /\ SV!TypeOK)
  BY StrategyInstance, NoEditLost
<1> QED
  BY <1>1, <1>2, RunsEach, PTL

(* Notices of new highs, whatever jobs overlap or are cut off.             *)
THEOREM HighsToldOnceInParts == PartsSpec => []HighsToldOnce
<1>1. TP!HighsToldOnce => HighsToldOnce
  BY DEF HighsToldOnce
<1>2. TP!Spec => [](TP!HighsToldOnce /\ TP!TypeOK)
  BY TopInstance, HighsTold
<1> QED
  BY <1>1, <1>2, RunsEach, PTL

(* The orders of the backtest, for runs of any length.                     *)
THEOREM OrdersFollowModelsInParts == PartsSpec => []OrdersFollowModels
<1>1. BT!OrdersFollowModels => OrdersFollowModels
  BY DEF OrdersFollowModels
<1>2. BT!Spec => [](BT!OrdersFollowModels /\ BT!TypeOK)
  BY BacktestInstance, ModelsDecide
<1> QED
  BY <1>1, <1>2, RunsEach, PTL

=============================================================================
