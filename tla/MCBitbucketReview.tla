-------------------------- MODULE MCBitbucketReview --------------------------
EXTENDS BitbucketReview

CONSTANTS f1, f2

TwoFindings == {f1, f2}
AllFaults == {"identity", "listing", "write", "reply", "lookup", "store", "raise", "room",
              "kill"}
=============================================================================
