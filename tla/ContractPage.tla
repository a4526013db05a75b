---------------------------- MODULE ContractPage ----------------------------
(* The page of one contract (src/frontend/src/features/contract/page.tsx):   *)
(* the query of its instance (contractInstanceQuery), which names the code   *)
(* it runs, and the query of that code (contractCodeQuery), kept for good    *)
(* and shared by all contracts of one wasm.  The route carries no key:       *)
(* another contract is shown by the same component.  Its paged list of       *)
(* invocations is History.                                                   *)
EXTENDS Tip

CONSTANTS
  Contract, Wasm,   \* contracts, and the hashes of wasm they may run
  Chain,            \* Chain[l]: the instances and the codes live at ledger l
  Readable          \* the wasm with an interface section that parses

Executable == {"absent", "stellarAsset"} \cup Wasm

ASSUME ContractPageAssumption ==
  /\ Chain \in [DOMAIN Content -> [instances : [Contract -> Executable],
                                   codes : SUBSET Wasm]]
  /\ Readable \subseteq Wasm /\ Wasm \cap {"absent", "stellarAsset", "none"} = {}

VARIABLES
  contract,               \* the contract in the url
  details,                \* the answers of the instance queries
  asking, failed,         \* contract's query under way; those in an error
  codes,                  \* the answers of the code queries
  codeAsking, codeFailed  \* the code query on screen: under way, in an error

codeVars == <<codes, codeAsking, codeFailed>>
contractVars == <<contract, details, asking, failed, codeVars>>

\* The reader comes by a link from outside; nothing is known yet.
ArrivesAt(c) ==
  /\ contract = c /\ details = <<>> /\ asking = TRUE /\ failed = {}
  /\ codes = <<>> /\ codeAsking = FALSE /\ codeFailed = FALSE

NoContractPage ==
  /\ contract = "none" /\ details = <<>> /\ asking = FALSE /\ failed = {}
  /\ codes = <<>> /\ codeAsking = FALSE /\ codeFailed = FALSE

-----------------------------------------------------------------------------
(* The code behind an instance.                                              *)

\* What contract c is known to run; a query keeps its data when it fails.
Known(c, answers) == IF c \in DOMAIN answers THEN answers[c] ELSE "absent"

(* Mutant: the code is kept under the contract that runs it. *)
CodeKeyOfContract(c, answers) == IF Known(c, answers) \in Wasm THEN c ELSE "none"

\* "keyed by hash alone, not by contract id"; without a hash it is disabled.
CodeKey(c, answers) == IF Known(c, answers) \in Wasm THEN Known(c, answers) ELSE "none"

Key == CodeKey(contract, details)

(* The code query follows the key: kept code at once and for good, a key     *)
(* without one is asked for, also where it failed before.                    *)
FollowCode ==
  LET key == CodeKey(contract', details')
  IN  /\ codeFailed' = (codeFailed /\ key = Key)
      /\ codeAsking' = IF key = Key THEN codeAsking
                       ELSE key # "none" /\ key \notin DOMAIN codes
      /\ UNCHANGED codes

\* contractInterface: the section of the wasm, where it has one that parses.
InterfaceIn(code) == IF code \in Readable THEN code ELSE "none"

\* An entry that the provider has not got is an answer like any other.
CodeEntry(l, hash) ==
  LET code == IF hash \in Chain[l].codes THEN hash ELSE "none"
  IN  [code |-> code, interface |-> InterfaceIn(code)]

CodeAnswers ==
  /\ route = "contract" /\ codeAsking
  /\ \E l \in Reported :
       codes' = [key \in DOMAIN codes \cup {Key} |->
                  IF key = Key THEN CodeEntry(l, Known(contract, details)) ELSE codes[key]]
  /\ codeAsking' = FALSE
  /\ UNCHANGED <<tipVars, contract, details, asking, failed, codeFailed>>

CodeFails ==
  /\ route = "contract" /\ codeAsking
  /\ codeAsking' = FALSE /\ codeFailed' = TRUE
  /\ UNCHANGED <<tipVars, contract, details, asking, failed, codes>>

-----------------------------------------------------------------------------
(* The instance.                                                             *)

\* It is "live ledger state": of the ledger its provider has come to.
InstanceAnswers ==
  /\ route = "contract" /\ asking
  /\ \E l \in Reported :
       details' = [c \in DOMAIN details \cup {contract} |->
                    IF c = contract THEN Chain[l].instances[c] ELSE details[c]]
  /\ asking' = FALSE /\ failed' = failed \ {contract}
  /\ UNCHANGED <<tipVars, contract>>
  /\ FollowCode

InstanceFails ==
  /\ route = "contract" /\ asking
  /\ asking' = FALSE /\ failed' = failed \cup {contract}
  /\ UNCHANGED <<tipVars, contract, details, codeVars>>

(* Another contract, by the search box or a link: its kept answer at once,   *)
(* asked for again when it is older than a ledger or ended in an error, and  *)
(* an error with no answer behind it starts from nothing.                    *)
ShowContract(c) ==
  /\ route = "contract" /\ c # contract
  /\ contract' = c
  /\ asking' \in IF c \in DOMAIN details /\ c \notin failed THEN BOOLEAN ELSE {TRUE}
  /\ failed' = IF c \in DOMAIN details THEN failed ELSE failed \ {c}
  /\ UNCHANGED <<tipVars, details>>
  /\ FollowCode

(* The browser is back online: stale queries and those without data ask      *)
(* again.                                                                    *)
Reconnect ==
  /\ route = "contract"
  /\ asking' \in IF contract \in DOMAIN details /\ contract \notin failed
                THEN {asking, TRUE} ELSE {TRUE}
  /\ failed' = IF contract \in DOMAIN details THEN failed ELSE failed \ {contract}
  /\ codeAsking' = (codeAsking \/ codeFailed) /\ codeFailed' = FALSE
  /\ UNCHANGED <<tipVars, contract, details, codes>>

ContractStep ==
  \/ InstanceAnswers \/ InstanceFails \/ CodeAnswers \/ CodeFails
  \/ \E c \in Contract : ShowContract(c)
  \/ Reconnect

-----------------------------------------------------------------------------
(* What the page says.                                                       *)

\* An error hides the data behind it.
ContractView ==
  IF contract \in failed THEN "unreachable"
  ELSE IF contract \notin DOMAIN details THEN "skeleton" ELSE "tabs"

Runs == Known(contract, details)

\* A disabled query never leaves pending.
CodePending == Key \notin DOMAIN codes /\ ~codeFailed
CodeData == IF Key \in DOMAIN codes THEN codes[Key] ELSE [code |-> "none", interface |-> "none"]

\* The row of the code's size, which a contract without wasm lacks.
SizeOf ==
  CASE Runs \notin Wasm -> "no row"
    [] Runs \in Wasm /\ CodePending -> "bar"
    [] Runs \in Wasm /\ ~CodePending ->
         IF CodeData.code = "none" THEN "could not load" ELSE CodeData.code

(* Mutant: the query is asked before the executable. *)
InterfacePendingFirst ==
  CASE CodePending -> "bars"
    [] ~CodePending /\ Runs = "absent" -> "no live instance"
    [] ~CodePending /\ Runs = "stellarAsset" -> "SEP-41"
    [] ~CodePending /\ Runs \in Wasm ->
         IF CodeData.interface = "none" THEN "no readable interface" ELSE CodeData.interface

\* What the tab of that name says.
Interface ==
  CASE Runs = "absent" -> "no live instance"
    [] Runs = "stellarAsset" -> "SEP-41"
    [] Runs \in Wasm /\ CodePending -> "bars"
    [] Runs \in Wasm /\ ~CodePending ->
         IF CodeData.interface = "none" THEN "no readable interface" ELSE CodeData.interface

=============================================================================
