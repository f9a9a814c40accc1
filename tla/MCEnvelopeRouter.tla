-------------------------- MODULE MCEnvelopeRouter --------------------------
EXTENDS EnvelopeRouter
=============================================================================
