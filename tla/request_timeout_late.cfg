SPECIFICATION Spec
CONSTANTS
    Status = {201, 404}
    MaxWrites = 2
    None = None
PROPERTY EventuallyAnswered
