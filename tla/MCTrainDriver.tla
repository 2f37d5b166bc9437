---------------------------- MODULE MCTrainDriver ----------------------------
EXTENDS TrainDriver
=============================================================================
