--------------------------- MODULE MCMasternodeList ---------------------------
EXTENDS MasternodeList
==============================================================================
