---------------------------- MODULE MCDeployment ----------------------------
(* A small instance of Deployment for TLC. *)
EXTENDS Deployment, TLC

CONSTANTS ann, bob

TeamSymmetry == Permutations(Team)

\* A service alone, a migration, the bot, the composition with the root package files,
\* shared code with a migration.
History ==
    <<{"gmail-worker"}, {"migrations"}, {"bot"}, {"compose", "root"}, {"shared", "migrations"}>>
=============================================================================
