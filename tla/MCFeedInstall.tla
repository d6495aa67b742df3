---------------------------- MODULE MCFeedInstall ----------------------------
EXTENDS FeedInstall, TLC

CONSTANTS c1, c2

MCVersions == [sequence : {1, 2}, digest : {"a", "b"}]
MCObjects == <<"document">>
MCSymmetry == Permutations(Clients)
=============================================================================
