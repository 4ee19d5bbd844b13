--------------------------- MODULE ComponentScopes ---------------------------
(***************************************************************************)
(* What spec.md promises of the scoped override registry and the element *)
(* resolver (sections 4.2 and 4.3), independent of how MDX implements it. *)
(*                                                                         *)
(* A scope is a chain of additions; lookup returns the entry of the most  *)
(* derived scope that defines the key.  Resolution takes, in order: the   *)
(* explicit override of the call site, the composite "parent.tag" entry,  *)
(* the bare tag entry, the built-in default.                               *)
(***************************************************************************)
EXTENDS Integers, Sequences

CONSTANTS
    Absent,               \* no entry / no explicit override / no parent
    CompositeKey(_, _),   \* the key of "tag nested inside parent"
    BuiltinDefault(_)     \* the renderer's own implementation for a request

VARIABLES
    chain,     \* the additions of every enclosing scope, outermost first
    resolved   \* the last resolution: [req, impl], or Absent

\* lookup(scope, tag): the nearest definition in the chain.
Lookup(ch, key) ==
    LET defs == {i \in DOMAIN ch : key \in DOMAIN ch[i]}
    IN IF defs = {} THEN Absent
       ELSE ch[CHOOSE i \in defs : \A j \in defs : j <= i][key]

\* resolve(scope, request): the first tier that yields an implementation.
Resolve(ch, req) ==
    LET composite == IF req.parent = Absent THEN Absent
                     ELSE Lookup(ch, CompositeKey(req.parent, req.tag))
    IN CASE req.explicit # Absent -> req.explicit
         [] composite # Absent     -> composite
         [] Lookup(ch, req.tag) # Absent -> Lookup(ch, req.tag)
         [] OTHER                  -> BuiltinDefault(req)

Init ==
    /\ chain = <<>>
    /\ resolved = Absent

\* deriveScope: a subtree starts with one more scope of additions.
Derive ==
    /\ Len(chain') = Len(chain) + 1
    /\ SubSeq(chain', 1, Len(chain)) = chain
    /\ UNCHANGED resolved

\* The subtree of the innermost scope is complete.
Discard ==
    /\ chain # <<>>
    /\ chain' = SubSeq(chain, 1, Len(chain) - 1)
    /\ UNCHANGED resolved

\* A request is resolved under the current chain.
ResolveRequest ==
    /\ resolved' # Absent
    /\ resolved'.impl = Resolve(chain, resolved'.req)
    /\ UNCHANGED chain

Next == Derive \/ Discard \/ ResolveRequest

Spec == Init /\ [][Next]_<<chain, resolved>>

=============================================================================
