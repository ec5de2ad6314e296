-------------------------- MODULE MCReducerSampler --------------------------
EXTENDS ReducerSampler
=============================================================================
