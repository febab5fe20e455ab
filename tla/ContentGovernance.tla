------------------------- MODULE ContentGovernance -------------------------
(***************************************************************************)
(* What the review workflow promises, without statuses, ledgers or clocks: *)
(* a content stands, that is, may be published, only after one person      *)
(* vouched for exactly that content and another person endorsed it, and it *)
(* never changes while it stands.                                          *)
(***************************************************************************)
CONSTANTS People, Contents, Writer, None

VARIABLES
    content,    \* the content as it reads now
    vouchers,   \* who vouches for it, in the round that is open
    standing    \* the person whose endorsement it stands on, or None

govVars == <<content, vouchers, standing>>

GovInit == content \in Contents /\ vouchers = {} /\ standing = None

Rewrite ==
    /\ standing = None
    /\ vouchers = {}
    /\ content' \in Contents
    /\ UNCHANGED <<vouchers, standing>>

Vouch(p) ==
    /\ standing = None
    /\ p # Writer
    /\ vouchers' = vouchers \cup {p}
    /\ UNCHANGED <<content, standing>>

\* Somebody objects: whoever vouched so far has to look again.
Object ==
    /\ standing = None
    /\ vouchers' = {}
    /\ UNCHANGED <<content, standing>>

Endorse(p) ==
    /\ standing = None
    /\ p # Writer
    /\ vouchers \ {p} # {}
    /\ standing' = p
    /\ vouchers' = {}
    /\ UNCHANGED content

Retract ==
    /\ standing # None
    /\ standing' = None
    /\ UNCHANGED <<content, vouchers>>

GovNext ==
    \/ Rewrite \/ Object \/ Retract
    \/ \E p \in People : Vouch(p) \/ Endorse(p)

GovSpec == GovInit /\ [][GovNext]_govVars
=============================================================================
