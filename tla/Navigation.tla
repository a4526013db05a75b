----------------------------- MODULE Navigation -----------------------------
(* The reader's way through the app (src/frontend/src/App.tsx): one route    *)
(* per kind of page, the open tab in the url, the browser's history.         *)
EXTENDS Integers, Sequences

CONSTANTS
  Page,       \* the entities that have a page: accounts and contracts
  KindOf,     \* KindOf[p]: "account" or "contract", the route of page p
  MaxActs     \* bound: what the reader does

ASSUME NavigationAssumption ==
  /\ KindOf \in [Page -> {"account", "contract"}]
  /\ MaxActs \in Nat

VARIABLES
  urls, at,   \* the browser's history and where it stands
  acts        \* how often the reader acted

navVars == <<urls, at, acts>>

Url == [page : Page, tab : {"details", "list"}]

Here == urls[at].page

NavTypeOK ==
  /\ urls \in Seq(Url) /\ at \in DOMAIN urls
  /\ acts \in 0..MaxActs

\* A link from outside opens any page on any tab.
NavInit == /\ \E u \in Url : urls = <<u>>
           /\ at = 1 /\ acts = 0

Act == acts < MaxActs /\ acts' = acts + 1

(* A link inside the app: the page of another entity, on its first tab.      *)
Visit(p) ==
  /\ Act /\ p # Here
  /\ urls' = Append(SubSeq(urls, 1, at), [page |-> p, tab |-> "details"])
  /\ at' = at + 1

(* Tabs replace the url, so going back leaves the page.                      *)
OpenTab(t) ==
  /\ Act /\ t # urls[at].tab
  /\ urls' = [urls EXCEPT ![at].tab = t]
  /\ UNCHANGED at

Back == Act /\ at > 1 /\ at' = at - 1 /\ UNCHANGED urls
Forward == Act /\ at < Len(urls) /\ at' = at + 1 /\ UNCHANGED urls

Go ==
  \/ \E p \in Page : Visit(p)
  \/ \E t \in {"details", "list"} : OpenTab(t)
  \/ Back \/ Forward

=============================================================================
