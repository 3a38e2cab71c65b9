---------------------------- MODULE MCMigrate ----------------------------
EXTENDS Migrate, TLC

\* An older release ships the first two migrations, the newest ships them all.
TwoReleases == {{1, 2}, {1, 2, 3}}

RunnerSymmetry == Permutations(Runners)
==========================================================================
