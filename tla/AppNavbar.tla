------------------------------ MODULE AppNavbar ------------------------------
(***************************************************************************)
(* The navigation scaffold of src/ui/src/App.js: a react-bootstrap Navbar *)
(* with a Navbar.Brand linking to #home and a Nav of three Nav.Links to    *)
(* #home, #features and #pricing.                                          *)
(*                                                                         *)
(* Clicking any of the anchors navigates to its fragment: the browser     *)
(* pushes a history entry (none when the fragment is already current).    *)
(* A Nav.Link click also selects it in the Nav: the Nav is uncontrolled   *)
(* (no activeKey or onSelect is passed), so it keeps the selected         *)
(* eventKey, which for a link is its href, and marks that link active.    *)
(* The Brand is outside the Nav and selects nothing.  The visitor may     *)
(* also go back and forward in the history.                               *)
(***************************************************************************)
EXTENDS Integers, Sequences

CONSTANTS
    NoKey,        \* no eventKey selected yet
    MaxHistory    \* bound on the length of the browser history

VARIABLES
    history,      \* the fragments of the history entries
    index,        \* the current entry
    activeKey     \* the Nav's selected eventKey, or NoKey

vars == <<history, index, activeKey>>

(***************************************************************************)
(* App.js                                                                  *)
(***************************************************************************)
\* <Navbar.Brand href="#home">.
NavbarBrand == [href |-> "#home", label |-> "Navbar"]

\* The Nav.Links, in order.
NavLinks ==
    << [href |-> "#home", label |-> "Home"],
       [href |-> "#features", label |-> "Features"],
       [href |-> "#pricing", label |-> "Pricing"] >>

NavHrefs == {NavLinks[i].href : i \in 1..Len(NavLinks)}

\* Mutation: the eventKey is taken from the link's text.
NavLinkEventKeyLabel(l) == l.label

\* A Nav.Link's eventKey: its href, as none is given.
NavLinkEventKey(l) == l.href

Hash == history[index]

\* The browser navigates to fragment f.
GoTo(f) ==
    IF f = Hash THEN UNCHANGED <<history, index>>
    ELSE /\ history' = Append(SubSeq(history, 1, index), f)
         /\ index' = index + 1

(***************************************************************************)
(* Actions.                                                                *)
(***************************************************************************)
\* App renders; the page is opened without a fragment.
Init ==
    /\ history = <<"">>
    /\ index = 1
    /\ activeKey = NoKey

\* A click on the Brand.
ClickBrand ==
    /\ NavbarBrand.href = Hash \/ index < MaxHistory
    /\ GoTo(NavbarBrand.href)
    /\ UNCHANGED activeKey

\* A click on the i-th Nav.Link: it is selected, then its href followed.
ClickNavLink(i) ==
    /\ NavLinks[i].href = Hash \/ index < MaxHistory
    /\ activeKey' = NavLinkEventKey(NavLinks[i])
    /\ GoTo(NavLinks[i].href)

\* The browser's back and forward buttons.
Back ==
    /\ index > 1
    /\ index' = index - 1
    /\ UNCHANGED <<history, activeKey>>

Forward ==
    /\ index < Len(history)
    /\ index' = index + 1
    /\ UNCHANGED <<history, activeKey>>

Next ==
    \/ ClickBrand
    \/ \E i \in 1..Len(NavLinks) : ClickNavLink(i)
    \/ Back
    \/ Forward

Spec == Init /\ [][Next]_vars

(***************************************************************************)
(* Properties.                                                             *)
(***************************************************************************)
\* The Nav's selection is always one of its links (the Brand, outside the
\* Nav, never selects), and the history stays within its bound.
TypeOK ==
    /\ activeKey \in NavHrefs \cup {NoKey}
    /\ history \in Seq({""} \cup NavHrefs)
    /\ Len(history) <= MaxHistory
    /\ index \in 1..Len(history)

=============================================================================
