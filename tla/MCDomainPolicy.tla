--------------------------- MODULE MCDomainPolicy ---------------------------
EXTENDS DomainPolicy, PolicyInputs
=============================================================================
