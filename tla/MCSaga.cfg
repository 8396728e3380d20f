SPECIFICATION FairSpec
CONSTANTS
    Provision = Provision
    Inner1 = Inner1
    Inner2 = Inner2
    Names = {Provision, Inner1, Inner2}
    Declarations <- MCDeclarations
    NumSteps = 4
    SagaName = Provision
    Dispatched = {2, 3}
    CommandOf <- MCCommandOf
INVARIANTS
    TypeOK
    NestingCaughtAtBoot
    NothingForgotten
    UndoneInReverse
    ErrorIsTheHandlers
 
CHECK_DEADLOCK FALSE
