---------------------------- MODULE MCJobHistory ----------------------------
\* Instances of JobHistory for model checking.
EXTENDS JobHistory

CONSTANT w1, w2

OneWork  == {w1}
TwoWorks == {w1, w2}

AnyWriteFault == {"unpublished", "published"}

=============================================================================
