------------------------- MODULE MCCampaignInvitations -------------------------
\* A ward in its LGA, the founder and two people they may bring in, an entry on the
\* roster without an account.
EXTENDS CampaignInvitations

CONSTANTS owner, ada, ben, vera, lga, ward, none, t1, t2

MCLevel == [s \in {lga, ward} |-> IF s = lga THEN "lga" ELSE "ward"]
MCParent == [s \in {lga, ward} |-> IF s = ward THEN lga ELSE none]

\* Tabs are interchangeable.
MCSymmetry == {[x \in {t1, t2} |-> x], [x \in {t1, t2} |-> IF x = t1 THEN t2 ELSE t1]}
=============================================================================
