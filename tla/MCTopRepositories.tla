-------------------------- MODULE MCTopRepositories --------------------------
EXTENDS TopRepositories
=============================================================================
