-------------------------- MODULE StrategyVersions --------------------------
(***************************************************************************)
(* Saved strategies of users (business/custom_strategy.py): a client loads *)
(* the list, edits a copy, and saves it under the version it loaded.  Its  *)
(* answer may be lost, so it may save the same thing once more.            *)
(*                                                                         *)
(* A definition is the number of the save that made it; what validation    *)
(* refuses never reaches the table.                                        *)
(***************************************************************************)
EXTENDS Integers

CONSTANTS
    Clients,        \* browsers
    User,           \* whose browser each is: [Clients -> users]
    Strategies,     \* the ids a row can get
    MaxSaves        \* bound: saves that are asked for

VARIABLES
    strategy,   \* user_strategy_table: per id None or its row
    loaded,     \* per client: the row it shows in its editor, or None
    saving,     \* per client: the save it is waiting for, or None
    saves,      \* saves asked for so far
    builtOn     \* ghost: per save, the definition its client had before its eyes

strategyVars == <<strategy, loaded, saving, saves, builtOn>>

None == [version |-> 0]
Row(user, version, definition, replaced) ==
    [user |-> user, version |-> version, definition |-> definition, replaced |-> replaced]

Init ==
    /\ strategy = [s \in Strategies |-> None]
    /\ loaded = [c \in Clients |-> None]
    /\ saving = [c \in Clients |-> None]
    /\ saves = 0
    /\ builtOn = [n \in 1 .. MaxSaves |-> 0]

(* list_strategies: the rows of one's own.                                 *)
LoadStrategy(c, s) ==
    /\ saving[c] = None
    /\ strategy[s] # None /\ strategy[s].user = User[c]
    /\ loaded' = [loaded EXCEPT ![c] =
          [id |-> s, version |-> strategy[s].version, definition |-> strategy[s].definition]]
    /\ UNCHANGED <<strategy, saving, saves, builtOn>>

(* A payload without an id; the row gets a new one.                        *)
CreateStrategy(c, s) ==
    /\ saving[c] = None
    /\ saves < MaxSaves
    /\ saves' = saves + 1
    /\ strategy[s] = None
    /\ strategy' = [strategy EXCEPT ![s] = Row(User[c], 1, saves', 0)]
    /\ loaded' = [loaded EXCEPT ![c] = [id |-> s, version |-> 1, definition |-> saves']]
    /\ UNCHANGED <<saving, builtOn>>

(* The id and the version are those of the copy in the editor; whoever     *)
(* knows an id may send it, also of a row that is not his.                 *)
AskToSave(c, s) ==
    /\ saving[c] = None
    /\ saves < MaxSaves
    /\ saves' = saves + 1
    /\ \/ loaded[c] # None /\ s = loaded[c].id
          /\ saving' = [saving EXCEPT ![c] = [id |-> s, version |-> loaded[c].version, definition |-> saves']]
          /\ builtOn' = [builtOn EXCEPT ![saves'] = loaded[c].definition]
       \/ strategy[s] # None /\ strategy[s].user # User[c]
          /\ saving' = [saving EXCEPT ![c] =
                [id |-> s, version |-> strategy[s].version, definition |-> saves']]
          /\ UNCHANGED builtOn
    /\ UNCHANGED <<strategy, loaded>>

(* The one UPDATE of save_strategy, and its answer, which the client may   *)
(* not get: it then asks once more with what it had.                       *)
Update(c, found) ==
    LET p == saving[c]
        old == strategy[p.id]
    IN  /\ IF found
           THEN strategy' = [strategy EXCEPT ![p.id] = Row(old.user, p.version + 1, p.definition, old.definition)]
           ELSE UNCHANGED strategy
        /\ \/ /\ saving' = [saving EXCEPT ![c] = None]
              /\ loaded' = [loaded EXCEPT ![c] = IF found THEN [p EXCEPT !.version = @ + 1] ELSE @]
           \/ UNCHANGED <<saving, loaded>>
        /\ UNCHANGED <<saves, builtOn>>

(* Mutant: the row is found by its id and its user alone.                  *)
SaveLatest(c) ==
    /\ saving[c] # None
    /\ Update(c, strategy[saving[c].id].user = User[c])

SaveStrategy(c) ==
    /\ saving[c] # None
    /\ Update(c, /\ strategy[saving[c].id].user = User[c]
                 /\ strategy[saving[c].id].version = saving[c].version)

Next ==
    \E c \in Clients, s \in Strategies :
        \/ LoadStrategy(c, s) \/ CreateStrategy(c, s)
        \/ AskToSave(c, s) \/ SaveStrategy(c)

Spec == Init /\ [][Next]_strategyVars

-----------------------------------------------------------------------------
TypeOK ==
    /\ \A s \in Strategies : strategy[s].version \in 0 .. MaxSaves
    /\ \A c \in Clients : {loaded[c].version, saving[c].version} \subseteq 0 .. MaxSaves
    /\ saves \in 0 .. MaxSaves

(* A save replaces only the definition its owner had before his eyes:      *)
(* nobody's edit is lost to another browser, to a save that is sent again, *)
(* or to another user (custom_strategy.py:36-44).                          *)
NoSaveLost ==
    \A s \in Strategies : strategy[s].version > 1 =>
        builtOn[strategy[s].definition] = strategy[s].replaced

=============================================================================
