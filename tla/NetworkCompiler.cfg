SPECIFICATION FairSpec
CONSTANT Networks <- MCNetworks
INVARIANTS TypeOK LinksAreTheQuotient ContractedGraphIsAcyclic ReadsWhatTheNetworkMeans SubgraphsArePrograms NoOperatorOverwritesItsInput
PROPERTY Compiles
CHECK_DEADLOCK FALSE
