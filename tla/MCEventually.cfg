SPECIFICATION FairSpec
PROPERTIES Settles Reached InputArrives CloseEnds  ListFollows LentAccessEnds 
CHECK_DEADLOCK FALSE
